---- MODULE Spec2Model ----
(***************************************************************************)
(* Order lifecycle and provisioning of the Telegram VPN storefront bot:    *)
(* the persisted users / orders / subscriptions, the payment gateway's     *)
(* payments, and the handlers that move an order from PENDING to PAID or   *)
(* CANCELED and provision a subscription (cmd_check, cmd_start deep-link,  *)
(* _auto_check_and_activate, yk_callback, yk_success).                     *)
(*                                                                         *)
(* Every handler is a coroutine on one event loop: a handler is cut into   *)
(* steps at the awaits where another coroutine can change the store        *)
(* between its reads and its writes.  Payment.find_one is a synchronous    *)
(* call, so a status query and the write that follows it are one step.     *)
(* Time is kept relative to the present, in minutes: a subscription row    *)
(* carries its age (now - created_at) and its term (expires_at -           *)
(* created_at), a sleeping task the rest of its sleep.  A handler run is   *)
(* short against the clock's resolution, so the clock advances between     *)
(* runs.  The settings object is the deployment's:                         *)
(* payment_provider is "yookassa", the panel settings read by the handlers *)
(* are present, and no subscription endpoint (public_base_url) is set.     *)
(***************************************************************************)
EXTENDS Integers, Sequences, FiniteSets, TLC

\* ------------------------------------------------------------------ bounds
MaxSubs == 2
TickMinutes == 3

\* Chat accounts (tg_user_id) that talk to the bot, and the order ids in use.
TgUsers == {1, 2}
OrderIds == {1, 2}
\* Plan codes a callback "plan:<code>" can carry.
PlanInputs == {"m3", "zz"}
AllPlanInputs == {"m1", "m3", "m6", "y1", "zz"}
\* Remote payment ids handed out by the gateway, in order of creation.
PaymentIds == <<"p1", "p2", "p3">>
RemoteStatuses == {"pending", "succeeded", "canceled"}

\* ------------------------------------------------------- program constants
GuardMinutes == 10
SleepMinutes == 3
MaxAttempts == 3
DayMinutes == 1440
DefaultPlanDays == 30

None == "None"
STATUS_NEW == "new"
PENDING == "pending"
PAID == "paid"
CANCELED == "canceled"
EXPIRED == "expired"
OrderStatus == {STATUS_NEW, PENDING, PAID, CANCELED, EXPIRED}

PLANS ==
  << [code |-> "m1", days |-> 30, price |-> 200],
     [code |-> "m3", days |-> 90, price |-> 500],
     [code |-> "m6", days |-> 180, price |-> 800],
     [code |-> "y1", days |-> 365, price |-> 1500] >>

\* What get_plan_by_code returns for an unknown code (None).
NoPlan == [code |-> "", days |-> 0, price |-> 0]

\* The first plan of PLANS with the given code, or None.
get_plan_by_code(code) ==
  IF \E i \in 1..Len(PLANS) : PLANS[i].code = code
  THEN PLANS[CHOOSE i \in 1..Len(PLANS) :
               /\ PLANS[i].code = code
               /\ \A j \in 1..(i - 1) : PLANS[j].code # code]
  ELSE NoPlan

\* -------------------------------------------------- composite external_id
\* f"{plan['code']}|{payment_id}" if payment_id else plan['code']
MakeExternalId(code, payment_id) ==
  IF payment_id # None THEN <<code, "|", payment_id>> ELSE <<code>>

HasBar(ext) == \E i \in 1..Len(ext) : ext[i] = "|"
FirstBar(ext) == CHOOSE i \in 1..Len(ext) :
                   /\ ext[i] = "|"
                   /\ \A j \in 1..(i - 1) : ext[j] # "|"
\* external_id.split("|", 1)[1] when "|" in external_id, else None
PaymentIdOf(ext) ==
  IF HasBar(ext) /\ FirstBar(ext) < Len(ext) THEN ext[FirstBar(ext) + 1] ELSE None
\* external_id.split("|", 1)[0] if "|" in external_id else external_id
PlanCodeOf(ext) ==
  IF HasBar(ext)
  THEN (IF FirstBar(ext) > 1 THEN ext[1] ELSE "")
  ELSE ext[1]

\* plan_days = settings.plan_days, replaced by the plan's days when the
\* order's code names a plan.
PlanDaysOf(ext) ==
  IF get_plan_by_code(PlanCodeOf(ext)) # NoPlan
  THEN get_plan_by_code(PlanCodeOf(ext)).days
  ELSE DefaultPlanDays

VARIABLES
  users,      \* users table: sequence of tg_user_id, row id = position
  orders,     \* orders table: sequence of rows, row id = position
  subs,       \* subscriptions table: sequence of rows, row id = position
  payments,   \* the gateway's payments: sequence, remote id = PaymentIds[position]
  creds,      \* yk_shop_id and yk_api_key are configured
  chat,       \* per chat account: the message / callback handler in flight
  task,       \* per order: its _auto_check_and_activate task
  web,        \* the HTTP route handler in flight
  sent,       \* the message the bot sent in the latest step, if any
  answered,   \* history: <<payment id, final status>> the gateway has answered
  callers,    \* per ensure_user call in flight: its transaction
  panel,      \* the X3UIClient.add_client call in flight
  helper      \* the helper-function call in flight: its input and its output

vars == <<users, orders, subs, payments, creds, chat, task, web, sent, answered, callers, panel, helper>>

NoMsg == [to |-> 0, msg |-> "none"]
\* A handler run: where it stands, the order it examines, its plan_days,
\* (history) whether its idempotency guard has looked and found nothing, and
\* for a cmd_check called by cmd_start the block of cmd_start that called it.
IdleRun == [pc |-> "idle", order |-> 0, days |-> 0, guard |-> FALSE, within |-> ""]
NoTask == [pc |-> "none", attempt |-> 0, wait |-> 0, days |-> 0, guard |-> FALSE]

\* The handlers that call ensure_user, each callable for every chat account.
Handlers == {"start", "buy", "plan"}
CallerIds == TgUsers \X Handlers
\* An ensure_user call and its transaction: where it stands, whether its
\* connection holds the database's write lock, whether it holds an
\* uncommitted new users row, the row id it returns, and (history) whether
\* its INSERT was ignored.
NoCall == [pc |-> "idle", lock |-> FALSE, new |-> FALSE, got |-> 0, raced |-> FALSE]

\* The add_client call: where it stands, the uuid it generated and the note it
\* was given, the endpoint, payload shape and encoding of its next request,
\* the response it holds, the number of create requests sent, the last
\* request sent, its return value, and (history) whether every response so
\* far was a failure and where the first empty HTTP 200 was received.
NoRequest == [ep |-> 0, pf |-> 0, stage |-> "", id |-> 0, email |-> ""]
NoResult == [uuid |-> 0, note |-> "", config_url |-> "none"]
NoPanelRun ==
  [pc |-> "idle", uuid |-> 0, note |-> "", ep |-> 0, pf |-> 0, stage |-> "",
   resp |-> "none", requests |-> 0, last |-> NoRequest, result |-> NoResult,
   all_failed |-> TRUE, emptied |-> <<0, 0>>]

\* No helper call is in flight.
NoHelper == [fn |-> "none"]

Init ==
  /\ users = <<>>
  /\ orders = <<>>
  /\ subs = <<>>
  /\ payments = <<>>
  /\ creds \in BOOLEAN
  /\ chat = [u \in TgUsers |-> IdleRun]
  /\ task = [o \in OrderIds |-> NoTask]
  /\ web = IdleRun
  /\ sent = NoMsg
  /\ answered = {}
  /\ helper = NoHelper
  /\ panel = NoPanelRun
  /\ callers = [c \in CallerIds |-> NoCall]

\* ------------------------------------------------------------ store reads
HasUser(us, tg) == \E i \in 1..Len(us) : us[i] = tg
UserRowId(us, tg) == CHOOSE i \in 1..Len(us) : us[i] = tg

\* ensure_user: the row of tg_user_id, inserted (OR IGNORE) when missing.
ensure_user(us, tg) == IF HasUser(us, tg) THEN us ELSE Append(us, tg)

\* select(Order).join(User).where(User.tg_user_id == tg).order_by(Order.id.desc()).first()
OrdersOf(tg) ==
  IF HasUser(users, tg)
  THEN {i \in 1..Len(orders) : orders[i].user_id = UserRowId(users, tg)}
  ELSE {}
\* A query ordered by Order.id ascending.
LatestOrderOf_ascending(tg) ==
  IF OrdersOf(tg) = {} THEN 0
  ELSE CHOOSE i \in OrdersOf(tg) : \A j \in OrdersOf(tg) : i <= j

LatestOrderOf(tg) ==
  IF OrdersOf(tg) = {} THEN 0
  ELSE CHOOSE i \in OrdersOf(tg) : \A j \in OrdersOf(tg) : j <= i

\* A guard whose lookup never finds a row.
RecentSubExists_never(tg) == FALSE

\* The idempotency guard's lookup: an active subscription of the chat account
\* with created_at >= now - 10 minutes.
RecentSubExists(tg) ==
  /\ HasUser(users, tg)
  /\ \E i \in 1..Len(subs) :
       /\ subs[i].user_id = UserRowId(users, tg)
       /\ subs[i].age <= GuardMinutes
       /\ subs[i].is_active

PaymentIndex(pid) == CHOOSE i \in 1..Len(payments) : PaymentIds[i] = pid
PaymentExists(pid) == \E i \in 1..Len(payments) : PaymentIds[i] = pid

Say(to, msg) == sent' = [to |-> to, msg |-> msg]
Quiet == sent' = NoMsg

\* ------------------------------------------------------------------ clock
\* No handler run is between two of its steps, and no task's sleep is over
\* with its poll still to run.
Quiescent ==
  /\ \A u \in TgUsers : chat[u].pc = "idle"
  /\ web.pc = "idle"
  /\ \A o \in OrderIds : task[o].pc \in {"none", "sleep", "done"}
  /\ \A o \in OrderIds : ~(task[o].pc = "sleep" /\ task[o].wait = 0)

\* Ages past the guard window are all recorded as OldAge.
OldAge == GuardMinutes + TickMinutes
Older(age) == IF age + TickMinutes > GuardMinutes THEN OldAge ELSE age + TickMinutes
Rest(wait) == IF wait > TickMinutes THEN wait - TickMinutes ELSE 0

\* TickMinutes pass: rows age, sleeps run down.
Tick ==
  /\ Quiescent
  /\ subs' = [i \in 1..Len(subs) |-> [subs[i] EXCEPT !.age = Older(subs[i].age)]]
  /\ task' = [o \in OrderIds |-> [task[o] EXCEPT !.wait = Rest(task[o].wait)]]
  /\ Quiet
  /\ UNCHANGED <<helper, panel, callers, users, orders, payments, creds, chat, web, answered>>

\* --------------------------------------------------------------- gateway
\* The user pays (or the payment is canceled) on the gateway's hosted page;
\* succeeded and canceled are final.
GatewayPay(p) ==
  /\ p \in 1..Len(payments)
  /\ payments[p].status = "pending"
  /\ payments' = [payments EXCEPT ![p].status = "succeeded"]
  /\ Quiet
  /\ UNCHANGED <<helper, panel, callers, users, orders, subs, creds, chat, task, web, answered>>

GatewayCancel(p) ==
  /\ p \in 1..Len(payments)
  /\ payments[p].status = "pending"
  /\ payments' = [payments EXCEPT ![p].status = "canceled"]
  /\ Quiet
  /\ UNCHANGED <<helper, panel, callers, users, orders, subs, creds, chat, task, web, answered>>

\* A gateway that answers anything: the status of a payment changes at will.
GatewayAny(p, s) ==
  /\ p \in 1..Len(payments)
  /\ s \in RemoteStatuses
  /\ payments[p].status # s
  /\ payments' = [payments EXCEPT ![p].status = s]
  /\ Quiet
  /\ UNCHANGED <<helper, panel, callers, users, orders, subs, creds, chat, task, web, answered>>

\* The answers Payment.find_one(pid) can give: the payment's current status,
\* or "raise" when the call fails.
FindOneAnswers(pid) ==
  {"raise"} \cup (IF PaymentExists(pid) THEN {payments[PaymentIndex(pid)].status} ELSE {})

\* History of the final statuses the gateway has answered to a status query.
Record(pid, ans) ==
  answered' = IF ans \in {"succeeded", "canceled"}
              THEN answered \cup {<<pid, ans>>}
              ELSE answered

\* The status query of a run that examines order o: the gateway's answer for
\* the order's payment id, or "skip" when no query is made.
HasPaymentId(o) ==
  /\ o \in 1..Len(orders)
  /\ PaymentIdOf(orders[o].external_id) # None
AnswersFor(o) ==
  IF HasPaymentId(o) THEN FindOneAnswers(PaymentIdOf(orders[o].external_id))
  ELSE {"skip"}
RecordFor(o, ans) ==
  IF HasPaymentId(o) THEN Record(PaymentIdOf(orders[o].external_id), ans)
  ELSE UNCHANGED answered

\* ------------------------------------------------------- cb_plan_choose
\* An Order row that leaves the amount unset.
NewOrder_unpriced(user_id, plan) ==
  [user_id |-> user_id,
   amount |-> 0,
   currency |-> "RUB",
   status |-> PENDING,
   external_id |-> MakeExternalId(plan.code, None),
   payment_url |-> None]

\* The Order row cb_plan_choose inserts for the chosen plan.
NewOrder(user_id, plan) ==
  [user_id |-> user_id,
   amount |-> plan.price,
   currency |-> "RUB",
   status |-> PENDING,
   external_id |-> MakeExternalId(plan.code, None),
   payment_url |-> None]

\* First part of cb_plan_choose: an unknown code is answered "Тариф не
\* найден"; otherwise one transaction ensures the user and inserts the order.
\* room caps the number of order rows.
cb_plan_choose(u, code, room) ==
  /\ chat[u].pc = "idle"
  /\ IF get_plan_by_code(code) = NoPlan
     THEN /\ Say(u, "plan_not_found")
          /\ UNCHANGED <<users, orders, chat>>
     ELSE /\ Len(orders) < room
          /\ users' = ensure_user(users, u)
          /\ orders' = Append(orders,
               NewOrder(UserRowId(ensure_user(users, u), u), get_plan_by_code(code)))
          /\ chat' = [chat EXCEPT ![u] =
               [IdleRun EXCEPT !.pc = "pay", !.order = Len(orders) + 1]]
          /\ Quiet
  /\ UNCHANGED <<helper, panel, callers, subs, payments, creds, task, web, answered>>

\* What Payment.create (and the find_one refresh of the confirmation url) can
\* give when credentials are set.
CreateOutcomes == {"url", "no_url", "unauthorized", "error"}

\* A handler without the except clause for UnauthorizedError.
create_unauthorized_uncaught(outcome) == FALSE

\* Payment.create raised UnauthorizedError.
create_unauthorized(outcome) == outcome = "unauthorized"

\* Second part of cb_plan_choose: create the hosted payment session, store
\* payment_url and "code|payment_id" in the order, show the invoice and
\* schedule the auto-check task.
cb_plan_choose_pay(u, outcome) ==
  /\ chat[u].pc = "pay"
  /\ outcome \in CreateOutcomes
  /\ LET o == chat[u].order
         pid == PaymentIds[Len(payments) + 1]
         code == PlanCodeOf(orders[o].external_id)
     IN
     IF ~creds
     THEN /\ Say(u, "no_credentials")
          /\ UNCHANGED <<orders, payments, task>>
     ELSE IF create_unauthorized(outcome)
     THEN /\ Say(u, "gateway_unauthorized")
          /\ UNCHANGED <<orders, payments, task>>
     ELSE IF outcome = "error"
     THEN /\ Say(u, "create_failed")
          /\ UNCHANGED <<orders, payments, task>>
     ELSE /\ payments' = Append(payments,
               [order_id |-> o, status |-> "pending",
                confirmation_url |-> IF outcome = "url" THEN pid ELSE None])
          /\ orders' = [orders EXCEPT
               ![o].payment_url = IF outcome = "url" THEN pid ELSE None,
               ![o].external_id = MakeExternalId(code, pid)]
          /\ IF outcome = "url"
             THEN /\ Say(u, "invoice")
                  /\ task' = [task EXCEPT ![o] =
                       [pc |-> "sleep", attempt |-> 0, wait |-> SleepMinutes,
                        days |-> 0, guard |-> FALSE]]
             ELSE /\ Say(u, "no_pay_url")
                  /\ UNCHANGED task
  /\ chat' = [chat EXCEPT ![u] = IdleRun]
  /\ UNCHANGED <<helper, panel, callers, users, subs, creds, web, answered>>

\* ------------------------------------------------------------ provisioning
\* The Subscription row a handler persists after add_client returned.  The
\* client's uuid is fresh for every add_client call.  created_at is now
\* (age 0) and expires_at is now + plan_days (term).  order is history: the
\* order the run examined.
NewSub(user_id, days, order) ==
  [user_id |-> user_id,
   xray_uuid |-> Len(subs) + 1,
   age |-> 0,
   term |-> days * DayMinutes,
   is_active |-> TRUE,
   order |-> order]

\* -------------------------------------------- _try_refresh_order_status
\* A refresh that takes every answer but "canceled" for a confirmation.
try_refresh_order_status_lax(o, ans) ==
  IF ~HasPaymentId(o) THEN None
  ELSE IF ans # "canceled" /\ orders[o].status # PAID THEN PAID
  ELSE IF ans = "canceled" /\ orders[o].status # CANCELED THEN CANCELED
  ELSE None

\* The value _try_refresh_order_status returns: the new status when it wrote
\* one, else None.
try_refresh_order_status(o, ans) ==
  IF ~HasPaymentId(o) THEN None
  ELSE IF ans = "succeeded" /\ orders[o].status # PAID THEN PAID
  ELSE IF ans = "canceled" /\ orders[o].status # CANCELED THEN CANCELED
  ELSE None

\* A refresh that writes the row back without its payment URL.
Refreshed_without_url(o, ans) ==
  IF try_refresh_order_status(o, ans) # None
  THEN [orders EXCEPT ![o].status = try_refresh_order_status(o, ans),
                      ![o].payment_url = None]
  ELSE orders

Refreshed(o, ans) ==
  IF try_refresh_order_status(o, ans) # None
  THEN [orders EXCEPT ![o].status = try_refresh_order_status(o, ans)]
  ELSE orders

\* ----------------------------------------------------------------- /check
\* A cmd_check that marks the order PAID without asking for the answer.
cmd_check_status_unasked(o, ans) ==
  IF orders[o].status # PAID /\ HasPaymentId(o) THEN PAID ELSE orders[o].status

\* The status cmd_check leaves in the order it loaded, given the gateway's
\* answer: queried only when the order is not PAID and has a payment id.
cmd_check_status(o, ans) ==
  IF orders[o].status # PAID /\ HasPaymentId(o) /\ ans = "succeeded" THEN PAID
  ELSE IF orders[o].status # PAID /\ HasPaymentId(o) /\ ans = "canceled" THEN CANCELED
  ELSE orders[o].status

\* A cmd_check that provisions whatever the order's status.
cmd_check_proceeds_always(status) == TRUE

\* cmd_check goes on to provision only with the order PAID.
cmd_check_proceeds(status) == status = PAID

\* cmd_check up to the idempotency guard: load the caller's latest order,
\* refresh its status from the gateway, compute the expiry.  Entered by the
\* /check command, or from cmd_start when the deep-link did not confirm or
\* its own provisioning raised.
\* cmd_check on the order o it loaded, with the gateway's answer ans.
cmd_check_answered(u, o, ans) ==
  /\ orders' = [orders EXCEPT ![o].status = cmd_check_status(o, ans)]
  /\ IF orders[o].status # PAID THEN RecordFor(o, ans) ELSE UNCHANGED answered
  /\ IF cmd_check_proceeds(cmd_check_status(o, ans))
     THEN /\ chat' = [chat EXCEPT ![u] =
               [pc |-> "check_guard", order |-> o,
                days |-> PlanDaysOf(orders[o].external_id), guard |-> FALSE,
                within |-> chat[u].within]]
          /\ Quiet
     ELSE /\ chat' = [chat EXCEPT ![u] = IdleRun]
          /\ IF orders[o].status # PAID /\ HasPaymentId(o) /\ ans = "canceled"
             THEN Say(u, "canceled")
             ELSE Say(u, "status_wait")

cmd_check(u) ==
  /\ chat[u].pc \in {"idle", "check"}
  /\ LET o == LatestOrderOf(u) IN
     IF o = 0
     THEN /\ Say(u, "no_orders")
          /\ chat' = [chat EXCEPT ![u] = IdleRun]
          /\ UNCHANGED <<orders, answered>>
     ELSE \E ans \in (IF orders[o].status # PAID THEN AnswersFor(o) ELSE {"skip"}) :
            cmd_check_answered(u, o, ans)
  /\ UNCHANGED <<helper, panel, callers, users, subs, payments, creds, task, web>>

\* The idempotency guard of cmd_check; with no recent subscription the run
\* goes on to add_client.
cmd_check_guard(u) ==
  /\ chat[u].pc = "check_guard"
  /\ IF RecentSubExists(u)
     THEN /\ Say(u, "already_active")
          /\ chat' = [chat EXCEPT ![u] = IdleRun]
     ELSE /\ chat' = [chat EXCEPT ![u].pc = "check_add", ![u].guard = TRUE]
          /\ Quiet
  /\ UNCHANGED <<helper, panel, callers, users, orders, subs, payments, creds, task, web, answered>>

\* Where a chat handler goes when cmd_check raised: a plain /check ends; in
\* cmd_start's try block the except block calls cmd_check once more; in the
\* except block the error is swallowed and the welcome text follows.
after_check_raised(within) ==
  IF within = "try" THEN [IdleRun EXCEPT !.pc = "check", !.within = "except"]
  ELSE IdleRun

\* add_client returned (created) or raised: persist the Subscription for the
\* caller and notify, or end the run with the exception.
cmd_check_persist(u, created) ==
  /\ chat[u].pc = "check_add"
  /\ IF created
     THEN /\ Len(subs) < MaxSubs
          /\ subs' = Append(subs, NewSub(UserRowId(users, u), chat[u].days, chat[u].order))
          /\ Say(u, "created")
          /\ chat' = [chat EXCEPT ![u] = IdleRun]
     ELSE /\ UNCHANGED subs
          /\ chat' = [chat EXCEPT ![u] = after_check_raised(chat[u].within)]
          /\ IF chat[u].within = "except" THEN Say(u, "welcome") ELSE Quiet
  /\ UNCHANGED <<helper, panel, callers, users, orders, payments, creds, task, web, answered>>

\* ------------------------------------------------- /start paid_<order_id>
\* cmd_start with a deep-link payload: ensure the user, refresh the named
\* order; unless that returned PAID, fall into cmd_check.
cmd_start_answered(u, order_id, ans) ==
  /\ orders' = Refreshed(order_id, ans)
  /\ RecordFor(order_id, ans)
  /\ IF try_refresh_order_status(order_id, ans) = PAID
     THEN chat' = [chat EXCEPT ![u] =
            [IdleRun EXCEPT !.pc = "start_guard", !.order = order_id]]
     ELSE chat' = [chat EXCEPT ![u] =
            [IdleRun EXCEPT !.pc = "check", !.within = "try"]]

cmd_start(u, order_id) ==
  /\ chat[u].pc = "idle"
  /\ order_id \in OrderIds
  /\ users' = ensure_user(users, u)
  /\ \E ans \in AnswersFor(order_id) : cmd_start_answered(u, order_id, ans)
  /\ Say(u, "checking")
  /\ UNCHANGED <<helper, panel, callers, subs, payments, creds, task, web>>

\* The deep-link's own provisioning: load the order by id for its plan, then
\* the idempotency guard for the sender.
cmd_start_guard(u) ==
  /\ chat[u].pc = "start_guard"
  /\ IF RecentSubExists(u)
     THEN /\ Say(u, "already_active")
          /\ chat' = [chat EXCEPT ![u] = IdleRun]
     ELSE /\ chat' = [chat EXCEPT ![u] =
               [pc |-> "start_add", order |-> chat[u].order,
                days |-> PlanDaysOf(orders[chat[u].order].external_id),
                guard |-> TRUE, within |-> ""]]
          /\ Quiet
  /\ UNCHANGED <<helper, panel, callers, users, orders, subs, payments, creds, task, web, answered>>

\* add_client returned (created) or raised: persist the Subscription for the
\* sender and notify, or go to the except block, which calls cmd_check.
cmd_start_persist(u, created) ==
  /\ chat[u].pc = "start_add"
  /\ IF created
     THEN /\ Len(subs) < MaxSubs
          /\ subs' = Append(subs, NewSub(UserRowId(users, u), chat[u].days, chat[u].order))
          /\ Say(u, "created")
          /\ chat' = [chat EXCEPT ![u] = IdleRun]
     ELSE /\ UNCHANGED subs
          /\ Quiet
          /\ chat' = [chat EXCEPT ![u] =
               [IdleRun EXCEPT !.pc = "check", !.within = "except"]]
  /\ UNCHANGED <<helper, panel, callers, users, orders, payments, creds, task, web, answered>>

\* ------------------------------------------------ _auto_check_and_activate
\* The chat account the task notifies: the one that chose the plan, which is
\* the order's owner.
TaskUser(o) == users[orders[o].user_id]

\* A loop that never runs out of attempts.
task_after_attempt_again(attempt) ==
  [pc |-> "sleep", attempt |-> attempt + 1, wait |-> SleepMinutes,
   days |-> 0, guard |-> FALSE]

\* A loop that stops at the first attempt that brought nothing.
task_after_attempt_stop(attempt) ==
  [pc |-> "done", attempt |-> attempt + 1, wait |-> 0, days |-> 0, guard |-> FALSE]

\* The task after an attempt whose refresh returned neither PAID nor
\* CANCELED: the loop sleeps again, or ends after the last attempt.
task_after_attempt(attempt) ==
  IF attempt + 1 >= MaxAttempts
  THEN [pc |-> "done", attempt |-> attempt + 1, wait |-> 0, days |-> 0, guard |-> FALSE]
  ELSE [pc |-> "sleep", attempt |-> attempt + 1, wait |-> SleepMinutes,
        days |-> 0, guard |-> FALSE]

\* One attempt of the task's loop once its sleep is over: refresh the order;
\* on PAID go on to provision, on CANCELED notify and stop.
auto_check_answered(o, ans) ==
  /\ orders' = Refreshed(o, ans)
  /\ RecordFor(o, ans)
  /\ IF try_refresh_order_status(o, ans) = PAID
     THEN /\ task' = [task EXCEPT ![o] =
               [pc |-> "guard", attempt |-> task[o].attempt + 1, wait |-> 0,
                days |-> PlanDaysOf(orders[o].external_id), guard |-> FALSE]]
          /\ Quiet
     ELSE IF try_refresh_order_status(o, ans) = CANCELED
     THEN /\ task' = [task EXCEPT ![o] =
               [pc |-> "done", attempt |-> task[o].attempt + 1, wait |-> 0,
                days |-> 0, guard |-> FALSE]]
          /\ Say(TaskUser(o), "canceled")
     ELSE /\ task' = [task EXCEPT ![o] = task_after_attempt(task[o].attempt)]
          /\ Quiet

auto_check_poll(o) ==
  /\ o \in 1..Len(orders)
  /\ task[o].pc = "sleep"
  /\ task[o].wait = 0
  /\ \E ans \in AnswersFor(o) : auto_check_answered(o, ans)
  /\ UNCHANGED <<helper, panel, callers, users, subs, payments, creds, chat, web>>

\* The idempotency guard of the task: a recent subscription ends the task
\* without a message.
auto_check_guard(o) ==
  /\ o \in 1..Len(orders)
  /\ task[o].pc = "guard"
  /\ IF RecentSubExists(TaskUser(o))
     THEN task' = [task EXCEPT ![o].pc = "done", ![o].days = 0]
     ELSE task' = [task EXCEPT ![o].pc = "add", ![o].guard = TRUE]
  /\ Quiet
  /\ UNCHANGED <<helper, panel, callers, users, orders, subs, payments, creds, chat, web, answered>>

\* add_client returned (created) or raised: persist the Subscription for the
\* task's user and notify, or log and go to the next attempt.
auto_check_persist(o, created) ==
  /\ o \in 1..Len(orders)
  /\ task[o].pc = "add"
  /\ IF created
     THEN /\ Len(subs) < MaxSubs
          /\ subs' = Append(subs, NewSub(UserRowId(users, TaskUser(o)), task[o].days, o))
          /\ Say(TaskUser(o), "created")
          /\ task' = [task EXCEPT ![o].pc = "done", ![o].days = 0, ![o].guard = FALSE]
     ELSE /\ UNCHANGED subs
          /\ Quiet
          /\ task' = [task EXCEPT ![o] = task_after_attempt(task[o].attempt - 1)]
  /\ UNCHANGED <<helper, panel, callers, users, orders, payments, creds, chat, web, answered>>

\* ------------------------------------------------------------ yk_callback
\* The webhook re-queries the payment named in the event and keeps the
\* status and the order id of the payment's metadata.
yk_callback(p) ==
  /\ web.pc = "idle"
  /\ creds
  /\ p \in 1..Len(payments)
  /\ Record(PaymentIds[p], payments[p].status)
  /\ web' = IF payments[p].status = "succeeded"
            THEN [IdleRun EXCEPT !.pc = "cb_paid", !.order = payments[p].order_id]
            ELSE IF payments[p].status = "canceled"
            THEN [IdleRun EXCEPT !.pc = "cb_canceled", !.order = payments[p].order_id]
            ELSE IdleRun
  /\ Quiet
  /\ UNCHANGED <<helper, panel, callers, users, orders, subs, payments, creds, chat, task>>

\* The status the webhook writes for the remote status it kept.
yk_callback_status(pc) == IF pc = "cb_paid" THEN PAID ELSE CANCELED

\* The webhook loads the order and its user, writes the status, notifies.
yk_callback_write ==
  /\ web.pc \in {"cb_paid", "cb_canceled"}
  /\ orders' = [orders EXCEPT ![web.order].status = yk_callback_status(web.pc)]
  /\ Say(users[orders[web.order].user_id],
         IF web.pc = "cb_paid" THEN "payment_accepted" ELSE "canceled")
  /\ web' = IdleRun
  /\ UNCHANGED <<helper, panel, callers, users, subs, payments, creds, chat, task, answered>>

\* ------------------------------------------------------------- yk_success
\* plan_days_map.get(plan_code, settings.plan_days) of yk_success, with
\* plan_code = external_id.split("|", 1)[0].
plan_days_map(ext) ==
  LET plan_code == IF HasBar(ext) THEN PlanCodeOf(ext) ELSE ext[1] IN
  CASE plan_code = "m1" -> 30
    [] plan_code = "m3" -> 90
    [] plan_code = "m6" -> 180
    [] plan_code = "y1" -> 365
    [] OTHER -> DefaultPlanDays

\* The success-return route: query the order's payment; when it succeeded,
\* mark the order PAID and go on to add_client.
yk_success(order_id) ==
  /\ web.pc = "idle"
  /\ creds
  /\ order_id \in 1..Len(orders)
  /\ \E ans \in AnswersFor(order_id) :
       /\ RecordFor(order_id, ans)
       /\ IF HasPaymentId(order_id) /\ ans = "succeeded"
          THEN /\ orders' = [orders EXCEPT ![order_id].status = PAID]
               /\ web' = [IdleRun EXCEPT
                            !.pc = "succ_add", !.order = order_id,
                            !.days = plan_days_map(orders[order_id].external_id)]
          ELSE UNCHANGED <<orders, web>>
  /\ Quiet
  /\ UNCHANGED <<helper, panel, callers, users, subs, payments, creds, chat, task>>

\* add_client returned (created) or raised: persist the Subscription for the
\* order's user and notify, or answer with the server error.
yk_success_persist(created) ==
  /\ web.pc = "succ_add"
  /\ IF created
     THEN /\ Len(subs) < MaxSubs
          /\ subs' = Append(subs, NewSub(orders[web.order].user_id, web.days, web.order))
          /\ Say(users[orders[web.order].user_id], "created")
     ELSE /\ UNCHANGED subs
          /\ Quiet
  /\ web' = IdleRun
  /\ UNCHANGED <<helper, panel, callers, users, orders, payments, creds, chat, task, answered>>

\* ---------------------------------------------------------- specification
\* Every trigger, two chat accounts, one order.
Next ==
  \/ Tick
  \/ \E p \in OrderIds : GatewayPay(p)
  \/ \E p \in OrderIds : GatewayCancel(p)
  \/ \E u \in TgUsers, code \in PlanInputs : cb_plan_choose(u, code, 1)
  \/ \E u \in TgUsers, outcome \in CreateOutcomes : cb_plan_choose_pay(u, outcome)
  \/ \E u \in TgUsers : cmd_check(u)
  \/ \E u \in TgUsers : cmd_check_guard(u)
  \/ \E u \in TgUsers, created \in BOOLEAN : cmd_check_persist(u, created)
  \/ \E u \in TgUsers, o \in OrderIds : cmd_start(u, o)
  \/ \E u \in TgUsers : cmd_start_guard(u)
  \/ \E u \in TgUsers, created \in BOOLEAN : cmd_start_persist(u, created)
  \/ \E o \in OrderIds : auto_check_poll(o)
  \/ \E o \in OrderIds : auto_check_guard(o)
  \/ \E o \in OrderIds, created \in BOOLEAN : auto_check_persist(o, created)
  \/ \E p \in OrderIds : yk_callback(p)
  \/ yk_callback_write
  \/ \E o \in OrderIds : yk_success(o)
  \/ \E created \in BOOLEAN : yk_success_persist(created)

Spec == Init /\ [][Next]_vars

\* One chat account and every trigger, with a gateway whose answers for a
\* payment change at will.
NextAnyGateway ==
  \/ Tick
  \/ \E p \in OrderIds, s \in RemoteStatuses : GatewayAny(p, s)
  \/ cb_plan_choose(1, "m3", 1)
  \/ \E outcome \in CreateOutcomes : cb_plan_choose_pay(1, outcome)
  \/ cmd_check(1)
  \/ cmd_check_guard(1)
  \/ \E created \in BOOLEAN : cmd_check_persist(1, created)
  \/ \E o \in OrderIds : cmd_start(1, o)
  \/ cmd_start_guard(1)
  \/ \E created \in BOOLEAN : cmd_start_persist(1, created)
  \/ \E o \in OrderIds : auto_check_poll(o)
  \/ \E o \in OrderIds : auto_check_guard(o)
  \/ \E o \in OrderIds, created \in BOOLEAN : auto_check_persist(o, created)
  \/ \E p \in OrderIds : yk_callback(p)
  \/ yk_callback_write
  \/ \E o \in OrderIds : yk_success(o)
  \/ \E created \in BOOLEAN : yk_success_persist(created)

SpecAnyGateway == Init /\ [][NextAnyGateway]_vars

\* An order that became PAID by the webhook after its task had given up: the
\* plan was chosen and invoiced, the three polls saw the payment pending, the
\* user paid, yk_callback wrote PAID.  Nothing is provisioned yet.
InitPaid ==
  \E u \in TgUsers, code \in AllPlanInputs \ {"zz"} :
    /\ users = <<u>>
    /\ orders = << [NewOrder(1, get_plan_by_code(code)) EXCEPT
                      !.status = PAID,
                      !.external_id = MakeExternalId(code, PaymentIds[1]),
                      !.payment_url = PaymentIds[1]] >>
    /\ subs = <<>>
    /\ payments = << [order_id |-> 1, status |-> "succeeded",
                      confirmation_url |-> PaymentIds[1]] >>
    /\ creds = TRUE
    /\ chat = [v \in TgUsers |-> IdleRun]
    /\ task = [o \in OrderIds |->
                IF o = 1
                THEN [pc |-> "done", attempt |-> MaxAttempts, wait |-> 0,
                      days |-> 0, guard |-> FALSE]
                ELSE NoTask]
    /\ web = IdleRun
    /\ sent = [to |-> u, msg |-> "payment_accepted"]
    /\ answered = {<<PaymentIds[1], "succeeded">>}
    /\ helper = NoHelper
    /\ panel = NoPanelRun
    /\ callers = [c \in CallerIds |-> NoCall]

\* /check alone, run after run, as the clock advances.
NextCheck ==
  \/ Tick
  \/ \E u \in TgUsers : cmd_check(u)
  \/ \E u \in TgUsers : cmd_check_guard(u)
  \/ \E u \in TgUsers, created \in BOOLEAN : cmd_check_persist(u, created)

SpecCheck == InitPaid /\ [][NextCheck]_vars

\* One chat account that buys twice and confirms by /check or by the task.
NextTwoOrders ==
  \/ Tick
  \/ \E p \in OrderIds : GatewayPay(p)
  \/ cb_plan_choose(1, "m3", 2)
  \/ \E outcome \in CreateOutcomes : cb_plan_choose_pay(1, outcome)
  \/ cmd_check(1)
  \/ cmd_check_guard(1)
  \/ \E created \in BOOLEAN : cmd_check_persist(1, created)
  \/ \E o \in OrderIds : auto_check_poll(o)
  \/ \E o \in OrderIds : auto_check_guard(o)
  \/ \E o \in OrderIds, created \in BOOLEAN : auto_check_persist(o, created)

SpecTwoOrders == Init /\ [][NextTwoOrders]_vars

\* Plan selection with every plan code, and the tasks it schedules.
NextOrders ==
  \/ Tick
  \/ \E u \in TgUsers, code \in AllPlanInputs : cb_plan_choose(u, code, 2)
  \/ \E u \in TgUsers, outcome \in CreateOutcomes : cb_plan_choose_pay(u, outcome)
  \/ \E o \in OrderIds : auto_check_poll(o)

SpecOrders == Init /\ [][NextOrders]_vars

\* The status query of cmd_check, of the deep-link and of the task raises,
\* whatever the payment's status; the webhook still reaches the gateway.
cmd_check_raising(u) ==
  /\ chat[u].pc \in {"idle", "check"}
  /\ LET o == LatestOrderOf(u) IN
     IF o = 0
     THEN /\ Say(u, "no_orders")
          /\ chat' = [chat EXCEPT ![u] = IdleRun]
          /\ UNCHANGED <<orders, answered>>
     ELSE cmd_check_answered(u, o,
            IF orders[o].status # PAID /\ HasPaymentId(o) THEN "raise" ELSE "skip")
  /\ UNCHANGED <<helper, panel, callers, users, subs, payments, creds, task, web>>

cmd_start_raising(u, order_id) ==
  /\ chat[u].pc = "idle"
  /\ HasPaymentId(order_id)
  /\ users' = ensure_user(users, u)
  /\ cmd_start_answered(u, order_id, "raise")
  /\ Say(u, "checking")
  /\ UNCHANGED <<helper, panel, callers, subs, payments, creds, task, web>>

auto_check_raising(o) ==
  /\ o \in 1..Len(orders)
  /\ task[o].pc = "sleep"
  /\ task[o].wait = 0
  /\ auto_check_answered(o, IF HasPaymentId(o) THEN "raise" ELSE "skip")
  /\ UNCHANGED <<helper, panel, callers, users, subs, payments, creds, chat, web>>

NextQueriesRaise ==
  \/ Tick
  \/ \E p \in OrderIds : GatewayPay(p)
  \/ \E p \in OrderIds : GatewayCancel(p)
  \/ \E u \in TgUsers, code \in PlanInputs : cb_plan_choose(u, code, 1)
  \/ \E u \in TgUsers, outcome \in CreateOutcomes : cb_plan_choose_pay(u, outcome)
  \/ \E u \in TgUsers : cmd_check_raising(u)
  \/ \E u \in TgUsers : cmd_check_guard(u)
  \/ \E u \in TgUsers, created \in BOOLEAN : cmd_check_persist(u, created)
  \/ \E u \in TgUsers, o \in OrderIds : cmd_start_raising(u, o)
  \/ \E o \in OrderIds : auto_check_raising(o)
  \/ \E p \in OrderIds : yk_callback(p)
  \/ yk_callback_write

SpecQueriesRaise == Init /\ [][NextQueriesRaise]_vars

\* ------------------------------------------------ webhook events with body
\* The notification bodies a sender can post to the callback route: the
\* payment id, and a status and an order id the body claims.
Events == [id : {PaymentIds[i] : i \in 1..Len(PaymentIds)},
           status : RemoteStatuses,
           order_id : OrderIds]

\* A webhook that believes the status of the notification body.
callback_status_from_body(event, remote) == event.status

\* status = getattr(remote, "status", None): the re-queried payment's status.
callback_status(event, remote) == remote.status

\* inv_id = metadata.get("order_id"): the order id of the payment's metadata.
callback_order(event, remote) == remote.order_id

\* yk_callback with its request body: only the body's payment id is read; an
\* id the gateway does not know ends the request with 400.
yk_callback_event(event) ==
  /\ web.pc = "idle"
  /\ creds
  /\ event \in Events
  /\ IF ~PaymentExists(event.id)
     THEN UNCHANGED <<web, answered>>
     ELSE LET remote == payments[PaymentIndex(event.id)]
              status == callback_status(event, remote)
              inv_id == callback_order(event, remote)
          IN /\ Record(event.id, remote.status)
             /\ web' = IF status = "succeeded"
                       THEN [IdleRun EXCEPT !.pc = "cb_paid", !.order = inv_id]
                       ELSE IF status = "canceled"
                       THEN [IdleRun EXCEPT !.pc = "cb_canceled", !.order = inv_id]
                       ELSE IdleRun
  /\ Quiet
  /\ UNCHANGED <<helper, panel, callers, users, orders, subs, payments, creds, chat, task>>

\* Plan selections, the gateway, and webhook notifications of any body.
NextWebhook ==
  \/ \E p \in OrderIds : GatewayPay(p)
  \/ \E p \in OrderIds : GatewayCancel(p)
  \/ \E u \in TgUsers, code \in PlanInputs : cb_plan_choose(u, code, 2)
  \/ \E u \in TgUsers, outcome \in CreateOutcomes : cb_plan_choose_pay(u, outcome)
  \/ \E event \in Events : yk_callback_event(event)
  \/ yk_callback_write

SpecWebhook == Init /\ [][NextWebhook]_vars

\* ---------------------------------------- ensure_user, statement by statement
\* SQLite admits one write transaction at a time: a statement that writes
\* waits until no other connection holds the lock.
LockFree(c) == \A d \in CallerIds \ {c} : ~callers[d].lock

\* The plan callbacks whose transaction is open.
PlansInFlight == {d \in CallerIds : d[2] = "plan" /\ callers[d].pc # "idle"}

\* A plain INSERT into a table without the unique index.
insert_always(us, tg) == TRUE

\* INSERT OR IGNORE under the unique index on tg_user_id: a row is inserted
\* only when the committed table has none for tg.
insert_or_ignore(us, tg) == ~HasUser(us, tg)

\* A handler opens its transaction and ensure_user selects the row; rows
\* other connections have not committed are not seen.
ensure_user_select(c) ==
  /\ callers[c].pc = "idle"
  /\ c[2] = "plan" => /\ chat[c[1]].pc = "idle"
                      /\ Len(orders) + Cardinality(PlansInFlight) < Cardinality(OrderIds)
  /\ callers' = [callers EXCEPT ![c] =
       IF HasUser(users, c[1])
       THEN [NoCall EXCEPT !.pc = "commit", !.got = UserRowId(users, c[1])]
       ELSE [NoCall EXCEPT !.pc = "insert"]]
  /\ Quiet
  /\ UNCHANGED <<helper, panel, users, orders, subs, payments, creds, chat, task, web, answered>>

\* INSERT OR IGNORE, once the write lock is free.
ensure_user_insert(c) ==
  /\ callers[c].pc = "insert"
  /\ LockFree(c)
  /\ callers' = [callers EXCEPT ![c].pc = "reselect",
                                ![c].lock = TRUE,
                                ![c].new = insert_or_ignore(users, c[1]),
                                ![c].raced = ~insert_or_ignore(users, c[1])]
  /\ Quiet
  /\ UNCHANGED <<helper, panel, users, orders, subs, payments, creds, chat, task, web, answered>>

\* The second select, scalar_one(): the connection's own new row, or the
\* committed one.
ensure_user_reselect(c) ==
  /\ callers[c].pc = "reselect"
  /\ callers[c].new \/ HasUser(users, c[1])
  /\ callers' = [callers EXCEPT ![c].pc = "commit",
                                ![c].got = IF callers[c].new THEN Len(users) + 1
                                           ELSE UserRowId(users, c[1])]
  /\ Quiet
  /\ UNCHANGED <<helper, panel, users, orders, subs, payments, creds, chat, task, web, answered>>

\* The end of the handler's transaction: cb_plan_choose first inserts its
\* Order (a write); the commit publishes the rows and frees the lock.  Then
\* /start sends the welcome text, /buy the plan keyboard, and the plan
\* callback goes on to create the payment.
ensure_user_commit(c) ==
  /\ callers[c].pc = "commit"
  /\ c[2] = "plan" => LockFree(c)
  /\ users' = IF callers[c].new THEN Append(users, c[1]) ELSE users
  /\ IF c[2] = "plan"
     THEN /\ orders' = Append(orders, NewOrder(callers[c].got, get_plan_by_code("m3")))
          /\ chat' = [chat EXCEPT ![c[1]] =
               [IdleRun EXCEPT !.pc = "pay", !.order = Len(orders) + 1]]
          /\ Quiet
     ELSE /\ Say(c[1], IF c[2] = "start" THEN "welcome" ELSE "choose_plan")
          /\ UNCHANGED <<orders, chat>>
  /\ callers' = [callers EXCEPT ![c].pc = "idle", ![c].lock = FALSE, ![c].new = FALSE]
  /\ UNCHANGED <<helper, panel, subs, payments, creds, task, web, answered>>

\* /start, /buy and a plan callback of chat account 1 and /start of chat
\* account 2, their transactions interleaved statement by statement.
Concurrent == {c \in CallerIds : c[1] = 1 \/ c[2] = "start"}
NextEnsureUser ==
  \/ \E c \in Concurrent : ensure_user_select(c)
  \/ \E c \in Concurrent : ensure_user_insert(c)
  \/ \E c \in Concurrent : ensure_user_reselect(c)
  \/ \E c \in Concurrent : ensure_user_commit(c)
  \/ \E u \in TgUsers, outcome \in CreateOutcomes : cb_plan_choose_pay(u, outcome)

SpecEnsureUser == Init /\ [][NextEnsureUser]_vars

\* ------------------------------------------------- X3UIClient.add_client
\* The add_client calls followed; the n-th call generates uuid n.
MaxCalls == 2
Notes == {"tg_1", "tg_2"}

\* self._candidates(subpaths) with an empty base path, and the payload shapes.
Endpoints == <<"/panel/api/inbounds/addClient", "/api/inbounds/addClient",
               "/panel/inbound/addClient", "/xui/inbound/addClient">>
Payloads == <<"v1", "v2_obj", "v2_str">>

\* What a create request can meet: the request raises, HTTP 500, HTTP 200
\* with an empty body, HTTP 200 complaining "unexpected end of JSON input",
\* HTTP 200 with a JSON body without a success flag, HTTP 200 with a success
\* flag, and the same with a vless:// link.
Responses == {"raise", "500", "empty", "eof", "fail", "ok", "ok_link"}

\* Every payload shape carries the generated uuid as the client id and the
\* note as its email.
Payload(pf, client_uuid, email_note) ==
  [pf |-> pf, id |-> client_uuid, email |-> email_note]

\* resp.status_code == 200 and the parsed body carries success True, ok True,
\* status "success"/"ok" or code 0.
is_success(resp) == resp \in {"ok", "ok_link"}

\* The vless://, vmess:// or trojan:// link found in the body, if any.
config_url(resp) == IF resp = "ok_link" THEN "link" ELSE "none"

\* A loop that never leaves its first payload shape.
after_failure_same(run) ==
  [run EXCEPT !.stage = "json"]

\* The inner loop goes on to the next payload shape, the outer loop to the
\* next endpoint; after the last one add_client returns without a link.
after_failure(run) ==
  IF run.pf < Len(Payloads)
  THEN [run EXCEPT !.pf = run.pf + 1, !.stage = "json"]
  ELSE IF run.ep < Len(Endpoints)
  THEN [run EXCEPT !.ep = run.ep + 1, !.pf = 1, !.stage = "json"]
  ELSE [run EXCEPT !.pc = "done",
                   !.result = [uuid |-> run.uuid, note |-> run.note,
                               config_url |-> "none"]]

\* The response in resp once the retries of this payload are over: success
\* returns the result, anything else moves on.
classify(run) ==
  IF is_success(run.resp)
  THEN [run EXCEPT !.pc = "done",
                   !.result = [uuid |-> run.uuid, note |-> run.note,
                               config_url |-> config_url(run.resp)]]
  ELSE after_failure(run)

\* What follows the response (or exception) of the request just sent.  A
\* raising JSON post skips the payload; a raising retry leaves resp as it was.
\* "eof" to the JSON post asks for the raw-JSON retry; an empty HTTP 200 to
\* the JSON post or to the raw retry asks for the form retry.
after_response(run, answer) ==
  LET got == IF answer = "raise" THEN run ELSE [run EXCEPT !.resp = answer] IN
  CASE run.stage = "json" /\ answer = "raise" -> after_failure(run)
    [] run.stage = "json" /\ answer = "eof" -> [got EXCEPT !.stage = "raw"]
    [] run.stage \in {"json", "raw"} /\ got.resp = "empty" -> [got EXCEPT !.stage = "form"]
    [] OTHER -> classify(got)

\* add_client up to its first create request: login, uuid4(), the payloads.
add_client(email_note) ==
  /\ panel.pc \in {"idle", "done"}
  /\ panel.uuid < MaxCalls
  /\ email_note \in Notes
  /\ panel' = [NoPanelRun EXCEPT !.pc = "post", !.uuid = panel.uuid + 1,
                                 !.note = email_note,
                                 !.ep = 1, !.pf = 1, !.stage = "json"]
  /\ UNCHANGED <<helper, users, orders, subs, payments, creds, chat, task, web, sent,
                 answered, callers>>

\* One create request and what the client does with its outcome.
add_client_post(answer) ==
  /\ panel.pc = "post"
  /\ answer \in Responses
  /\ LET sending == [panel EXCEPT
                      !.requests = panel.requests + 1,
                      !.last = [ep |-> panel.ep, pf |-> panel.pf,
                                stage |-> panel.stage,
                                id |-> Payload(panel.pf, panel.uuid, panel.note).id,
                                email |-> Payload(panel.pf, panel.uuid, panel.note).email],
                      !.all_failed = panel.all_failed /\ answer \in {"raise", "500"},
                      !.emptied = IF answer = "empty" /\ panel.emptied = <<0, 0>>
                                  THEN <<panel.ep, panel.pf>> ELSE panel.emptied]
     IN panel' = after_response(sending, answer)
  /\ UNCHANGED <<helper, users, orders, subs, payments, creds, chat, task, web, sent,
                 answered, callers>>

NextAddClient ==
  \/ \E email_note \in Notes : add_client(email_note)
  \/ \E answer \in Responses : add_client_post(answer)

SpecAddClient == Init /\ [][NextAddClient]_vars

\* ------------------------------------------- provisioning with its links
\* What add_client can return to a handler: a uuid and, when the panel's
\* answer carried one, a link.
CreatedResults == [uuid : {"uuid_a", "uuid_b"}, config_url : {"link", "none"}]
\* What fetching the subscription endpoint can give.
Resolutions == {"resolved", "none"}

\* sub_url: built only when public_base_url, the subscription port and the
\* subscription path are all configured.
sub_url_of(configured) == IF configured THEN "sub_url" ELSE "none"

\* final_url = created.config_url or await _resolve_subscription_link(sub_url)
final_url_of(created, configured, resolved) ==
  IF created.config_url # "none" THEN created.config_url
  ELSE IF sub_url_of(configured) # "none" THEN resolved
  ELSE "none"

\* Subscription.config_url = final_url or sub_url
stored_url(created, configured, resolved) ==
  IF final_url_of(created, configured, resolved) # "none"
  THEN final_url_of(created, configured, resolved)
  ELSE sub_url_of(configured)

\* A row inserted with the active flag off.
NewSubOf_inactive(user_id, days, order, created, url) ==
  [user_id |-> user_id,
   xray_uuid |-> created.uuid,
   age |-> 0,
   term |-> days * DayMinutes,
   is_active |-> FALSE,
   order |-> order,
   config_url |-> url]

\* The Subscription row with the panel's uuid and the link.
NewSubOf(user_id, days, order, created, url) ==
  [user_id |-> user_id,
   xray_uuid |-> created.uuid,
   age |-> 0,
   term |-> days * DayMinutes,
   is_active |-> TRUE,
   order |-> order,
   config_url |-> url]

\* A confirmation that leaves the uuid out.
created_text_without_uuid(to, created, url) ==
  [to |-> to, msg |-> "created", uuid |-> "",
   hint |-> IF url # "none" THEN "config_link" ELSE "manual"]

\* The confirmation: the uuid, then the link or the advice to fetch it from
\* the panel.
created_text(to, created, url) ==
  [to |-> to, msg |-> "created", uuid |-> created.uuid,
   hint |-> IF url # "none" THEN "config_link" ELSE "manual"]

\* cmd_check after add_client returned: resolve the link, persist, notify.
cmd_check_provision(u, created, configured, resolved) ==
  /\ chat[u].pc = "check_add"
  /\ created \in CreatedResults
  /\ resolved \in Resolutions
  /\ Len(subs) < MaxSubs
  /\ subs' = Append(subs,
       NewSubOf(UserRowId(users, u), chat[u].days, chat[u].order, created,
                stored_url(created, configured, resolved)))
  /\ sent' = created_text(u, created, stored_url(created, configured, resolved))
  /\ chat' = [chat EXCEPT ![u] = IdleRun]
  /\ UNCHANGED <<helper, users, orders, payments, creds, task, web, answered, callers, panel>>

\* The task after add_client returned: resolve the link, persist, notify.
auto_check_provision(o, created, configured, resolved) ==
  /\ o \in 1..Len(orders)
  /\ task[o].pc = "add"
  /\ created \in CreatedResults
  /\ resolved \in Resolutions
  /\ Len(subs) < MaxSubs
  /\ subs' = Append(subs,
       NewSubOf(UserRowId(users, TaskUser(o)), task[o].days, o, created,
                stored_url(created, configured, resolved)))
  /\ sent' = created_text(TaskUser(o), created, stored_url(created, configured, resolved))
  /\ task' = [task EXCEPT ![o].pc = "done", ![o].days = 0, ![o].guard = FALSE]
  /\ UNCHANGED <<helper, users, orders, payments, creds, chat, web, answered, callers, panel>>

\* One chat account buys; /check and the task provision, with every outcome
\* of add_client and of the link resolution.
NextLinks ==
  \/ Tick
  \/ GatewayPay(1)
  \/ cb_plan_choose(1, "m3", 1)
  \/ \E outcome \in CreateOutcomes : cb_plan_choose_pay(1, outcome)
  \/ cmd_check(1)
  \/ cmd_check_guard(1)
  \/ cmd_check_persist(1, FALSE)
  \/ \E created \in CreatedResults, configured \in BOOLEAN, resolved \in Resolutions :
       cmd_check_provision(1, created, configured, resolved)
  \/ auto_check_poll(1)
  \/ auto_check_guard(1)
  \/ auto_check_persist(1, FALSE)
  \/ \E created \in CreatedResults, configured \in BOOLEAN, resolved \in Resolutions :
       auto_check_provision(1, created, configured, resolved)

SpecLinks == Init /\ [][NextLinks]_vars

\* ------------------------------------------------- sanitize_config_link
\* The longest fragment followed.
MaxLen == 4

\* A fragment is a sequence of raw characters: a letter, the hyphen, a digit,
\* a comma, and the percent-escapes of the hyphen and of the line feed.
RawChars == {"a", "-", "1", ",", "%2D", "%0A"}
SeqsUpTo(S, n) == UNION {[1..k -> S] : k \in 0..n}
Fragments == SeqsUpTo(RawChars, MaxLen)

\* A link as urlsplit sees it; the links the handlers meet have a lower-case
\* scheme, and a query only when it is not empty.
NoUrl == [scheme |-> "", netloc |-> "", path |-> "", query |-> "", fragment |-> <<>>]
Urls == [scheme : {"vless"}, netloc : {"id@h:443"}, path : {""},
         query : {"type=tcp"}, fragment : Fragments]

\* unquote and quote(safe="-._~"), character by character.
unquote_char(c) ==
  CASE c = "%2D" -> "-"
    [] c = "%0A" -> "LF"
    [] OTHER -> c
quote_char(c) ==
  CASE c = "," -> "%2C"
    [] c = "LF" -> "%0A"
    [] OTHER -> c
unquote(s) == [i \in 1..Len(s) |-> unquote_char(s[i])]
quote(s) == [i \in 1..Len(s) |-> quote_char(s[i])]

\* \d
IsDigit(c) == c = "1"

\* A pattern whose dot also matches the line feed.
SuffixStarts_dotall(s) ==
  {i \in 1..Len(s) - 1 : s[i] = "-" /\ IsDigit(s[i + 1])}

\* re.match(r"^(.*?)(?:-\d.*)$", decoded): the places where the suffix can
\* start.  The dot does not match a line feed, so none may stand before the
\* hyphen, and after the digit only as the last character, where $ matches.
SuffixStarts(s) ==
  {i \in 1..Len(s) - 1 :
     /\ s[i] = "-"
     /\ IsDigit(s[i + 1])
     /\ \A j \in 1..Len(s) : s[j] = "LF" => (j = Len(s) /\ j > i + 1)}

\* m.group(1) if m else decoded: the non-greedy group ends at the first place.
base_fragment(s) ==
  IF SuffixStarts(s) = {} THEN s
  ELSE SubSeq(s, 1, (CHOOSE i \in SuffixStarts(s) : \A j \in SuffixStarts(s) : i <= j) - 1)

\* str.strip(): the only white space of the alphabet is the line feed.
RECURSIVE strip(_)
strip(s) ==
  IF s = <<>> THEN s
  ELSE IF s[1] = "LF" THEN strip(Tail(s))
  ELSE IF s[Len(s)] = "LF" THEN strip(SubSeq(s, 1, Len(s) - 1))
  ELSE s

sanitize_config_link(url) ==
  IF url = NoUrl \/ url.fragment = <<>> THEN url
  ELSE [url EXCEPT !.fragment = quote(strip(base_fragment(unquote(url.fragment))))]

\* One call of sanitize_config_link on the link it was given.
sanitize_call ==
  /\ helper.fn = "sanitize"
  /\ ~helper.done
  /\ helper' = [helper EXCEPT !.out = sanitize_config_link(helper.arg), !.done = TRUE]
  /\ UNCHANGED <<users, orders, subs, payments, creds, chat, task, web, sent,
                 answered, callers, panel>>

\* ---------------------------------------------- the link lines of messages
\* The text a handler sends with a configuration link in it.
link_text(to, site, link) == [to |-> to, msg |-> "link", site |-> site, link |-> link]

\* cmd_check, cmd_start's deep-link branch and the task append
\* sanitize_config_link(final_url or sub_url) to the confirmation.
cmd_check_link(u) ==
  /\ helper.fn = "show"
  /\ sent' = link_text(u, "check", sanitize_config_link(helper.arg))
  /\ UNCHANGED <<users, orders, subs, payments, creds, chat, task, web,
                 answered, callers, panel, helper>>

cmd_start_link(u) ==
  /\ helper.fn = "show"
  /\ sent' = link_text(u, "start", sanitize_config_link(helper.arg))
  /\ UNCHANGED <<users, orders, subs, payments, creds, chat, task, web,
                 answered, callers, panel, helper>>

auto_check_link(u) ==
  /\ helper.fn = "show"
  /\ sent' = link_text(u, "task", sanitize_config_link(helper.arg))
  /\ UNCHANGED <<users, orders, subs, payments, creds, chat, task, web,
                 answered, callers, panel, helper>>

\* yk_success appends cfg_url or sub_url or created.config_url as it is.
yk_success_link(u) ==
  /\ helper.fn = "show"
  /\ sent' = link_text(u, "success", helper.arg)
  /\ UNCHANGED <<users, orders, subs, payments, creds, chat, task, web,
                 answered, callers, panel, helper>>

\* /my and the "menu:subs" callback list sanitize_config_link(s.config_url).
cmd_my(u) ==
  /\ helper.fn = "show"
  /\ sent' = link_text(u, "my", sanitize_config_link(helper.arg))
  /\ UNCHANGED <<users, orders, subs, payments, creds, chat, task, web,
                 answered, callers, panel, helper>>

cb_open_subs(u) ==
  /\ helper.fn = "show"
  /\ sent' = link_text(u, "subs", sanitize_config_link(helper.arg))
  /\ UNCHANGED <<users, orders, subs, payments, creds, chat, task, web,
                 answered, callers, panel, helper>>

\* A link the panel gave, or the stored config_url of a subscription.
InitLinkShown ==
  /\ users = <<>>
  /\ orders = <<>>
  /\ subs = <<>>
  /\ payments = <<>>
  /\ creds = TRUE
  /\ chat = [u \in TgUsers |-> IdleRun]
  /\ task = [o \in OrderIds |-> NoTask]
  /\ web = IdleRun
  /\ sent = NoMsg
  /\ answered = {}
  /\ panel = NoPanelRun
  /\ callers = [c \in CallerIds |-> NoCall]
  /\ \E url \in Urls : helper = [fn |-> "show", arg |-> url]

NextLinkShown ==
  \/ \E u \in TgUsers : cmd_check_link(u)
  \/ \E u \in TgUsers : cmd_start_link(u)
  \/ \E u \in TgUsers : auto_check_link(u)
  \/ \E u \in TgUsers : yk_success_link(u)
  \/ \E u \in TgUsers : cmd_my(u)
  \/ \E u \in TgUsers : cb_open_subs(u)

SpecLinkShown == InitLinkShown /\ [][NextLinkShown]_vars

\* ------------------------------------------- _resolve_subscription_link
\* for attempt in range(5)
ResolveAttempts == 5

\* What a GET of the subscription endpoint can meet: the request raises, or
\* a response with its status and, for each extractor, the connection URI
\* that extractor would find in it ("none" when it finds nothing, as when
\* the QR libraries are not installed).
NoResponse == [status |-> 0, plain |-> "none", b64 |-> "none", datauri |-> "none", png |-> "none"]
Raises == [NoResponse EXCEPT !.status = -1]
SubResponses ==
  {Raises} \cup
  [status : {200, 500},
   plain : {"none", "vless://plain"},
   b64 : {"none", "vless://b64"},
   datauri : {"none", "vless://datauri"},
   png : {"none", "vless://png"}]

\* An extractor order that looks at the PNG body first.
extract_png_first(resp) ==
  IF resp.png # "none" THEN resp.png
  ELSE IF resp.plain # "none" THEN resp.plain
  ELSE IF resp.b64 # "none" THEN resp.b64
  ELSE resp.datauri

\* The extractors in the order of the loop body: plain text, base64-decoded
\* text, data-URI QR, PNG body QR.
extract(resp) ==
  IF resp.plain # "none" THEN resp.plain
  ELSE IF resp.b64 # "none" THEN resp.b64
  ELSE IF resp.datauri # "none" THEN resp.datauri
  ELSE resp.png

\* The call before its first GET: an absent url returns None at once.
resolve_start ==
  /\ helper.fn = "resolve"
  /\ helper.pc = "start"
  /\ helper' = IF helper.url = "none"
               THEN [helper EXCEPT !.pc = "returned"]
               ELSE [helper EXCEPT !.pc = "get"]
  /\ UNCHANGED <<users, orders, subs, payments, creds, chat, task, web, sent,
                 answered, callers, panel>>

\* One GET and the rest of the loop body.  A raising GET leaves the loop
\* through the outer except; a status other than 200 and a body without a
\* link sleep and go to the next attempt.
resolve_get(resp) ==
  /\ helper.fn = "resolve"
  /\ helper.pc = "get"
  /\ resp \in SubResponses
  /\ helper' =
       LET got == [helper EXCEPT !.fetches = helper.fetches + 1, !.resp = resp] IN
       IF resp = Raises THEN [got EXCEPT !.pc = "returned"]
       ELSE IF resp.status = 200 /\ extract(resp) # "none"
       THEN [got EXCEPT !.pc = "returned", !.out = extract(resp)]
       ELSE IF helper.attempt + 1 < ResolveAttempts
       THEN [got EXCEPT !.attempt = helper.attempt + 1]
       ELSE [got EXCEPT !.attempt = helper.attempt + 1, !.pc = "returned"]
  /\ UNCHANGED <<users, orders, subs, payments, creds, chat, task, web, sent,
                 answered, callers, panel>>

\* ------------------------------------------- external_id, character by character
MaxIdLen == 3

\* The codes of PLANS and the ids a payment session can carry, as strings
\* of characters; the empty string stands for a payment without an id.
PlanCodeStrings == {<<"m", "1">>, <<"m", "3">>, <<"m", "6">>, <<"y", "1">>}
RemoteIds == UNION {[1..n -> {"p", "|", "-"}] : n \in 0..MaxIdLen}
NoPaymentId == <<"None">>

\* A split at the last "|" of the string.
bar_index_last(s) ==
  CHOOSE i \in 1..Len(s) : s[i] = "|" /\ \A j \in (i + 1)..Len(s) : s[j] # "|"

\* "|" in s, and the place where s.split("|", 1) cuts.
has_bar(s) == \E i \in 1..Len(s) : s[i] = "|"
bar_index(s) ==
  CHOOSE i \in 1..Len(s) : s[i] = "|" /\ \A j \in 1..(i - 1) : s[j] # "|"
split_head(s) == IF has_bar(s) THEN SubSeq(s, 1, bar_index(s) - 1) ELSE s
split_tail(s) == SubSeq(s, bar_index(s) + 1, Len(s))

\* ext_value = f"{plan['code']}|{payment_id}" if payment_id else plan['code']
ext_value(code, payment_id) ==
  IF payment_id # <<>> THEN code \o <<"|">> \o payment_id ELSE code

\* The plan code as cmd_start, cmd_check and the task read it, as
\* yk_success reads it, and the payment id as every read site reads it.
plan_code_of(ext) == IF has_bar(ext) THEN split_head(ext) ELSE ext
plan_code_of_success(ext) == IF ext # <<>> THEN split_head(ext) ELSE NoPaymentId
payment_id_of(ext) ==
  IF ext # <<>> /\ has_bar(ext) THEN split_tail(ext) ELSE NoPaymentId

\* cb_plan_choose creates the order with the bare code ...
ext_create ==
  /\ helper.fn = "external_id"
  /\ helper.pc = "new"
  /\ helper' = [helper EXCEPT !.pc = "bare", !.ext = helper.code]
  /\ UNCHANGED <<users, orders, subs, payments, creds, chat, task, web, sent,
                 answered, callers, panel>>

\* ... and stores ext_value once the payment session exists.
ext_store ==
  /\ helper.fn = "external_id"
  /\ helper.pc = "bare"
  /\ helper' = [helper EXCEPT !.pc = "stored",
                               !.ext = ext_value(helper.code, helper.payment_id)]
  /\ UNCHANGED <<users, orders, subs, payments, creds, chat, task, web, sent,
                 answered, callers, panel>>

\* A read site takes the order's external_id apart.
ext_read ==
  /\ helper.fn = "external_id"
  /\ helper.pc \in {"bare", "stored"}
  /\ helper.read = "none"
  /\ helper' = [helper EXCEPT !.read = helper.pc,
                               !.plan = plan_code_of(helper.ext),
                               !.plan_success = plan_code_of_success(helper.ext),
                               !.paid_with = payment_id_of(helper.ext)]
  /\ UNCHANGED <<users, orders, subs, payments, creds, chat, task, web, sent,
                 answered, callers, panel>>

\* ---------------------------------------------------------- build_vless_url
\* The inbound records build_vless_url can be handed.  protocol "absent" is
\* a record without the key; port 0 is a missing or zero port; stream
\* "unparsable" is a streamSettings string that is not JSON; tlsSettings and
\* realitySettings are absent, a dict without serverName, a dict with one,
\* or (realitySettings) a JSON string.
Inbounds ==
  [protocol : {"absent", "vless", "vmess"},
   port : {0, 443},
   stream : {"dict", "unparsable"},
   network : {"tcp", "ws"},
   ws_host : {"none", "ws.host"},
   security : {"none", "tls", "reality"},
   tlsSettings : {"absent", "no_name", "tls.name"},
   realitySettings : {"absent", "no_name", "reality.name", "string"}]
NoVless == [server |-> "none", port |-> 0]

\* A choice of server that prefers the panel's own hostname.
choose_server_base_first(public_host, host, sni, base_host) ==
  IF base_host # "none" THEN base_host
  ELSE IF public_host # "none" THEN public_host
  ELSE IF host # "none" THEN host
  ELSE sni

\* (inbound.get("protocol") or "vless").lower()
protocol_of(inbound) == IF inbound.protocol = "absent" THEN "vless" ELSE inbound.protocol
\* network and security of the parsed stream; an unparsable stream is {}.
network_of(inbound) == IF inbound.stream = "dict" THEN inbound.network ELSE "tcp"
security_of(inbound) == IF inbound.stream = "dict" THEN inbound.security ELSE "none"
\* headers.get("Host") or headers.get("host") when network == "ws"
ws_host_of(inbound) ==
  IF inbound.stream = "dict" /\ network_of(inbound) = "ws" THEN inbound.ws_host ELSE "none"
\* tls = stream.get("tlsSettings") or stream.get("realitySettings") or {}
tls_of(inbound) ==
  IF inbound.tlsSettings # "absent" THEN inbound.tlsSettings
  ELSE IF inbound.realitySettings # "absent" THEN inbound.realitySettings
  ELSE "no_name"
\* tls.get("serverName") raises on a string; the outer except returns None.
sni_raises(inbound) ==
  security_of(inbound) \in {"tls", "reality"} /\ tls_of(inbound) = "string"
sni_of(inbound) ==
  IF security_of(inbound) \in {"tls", "reality"} /\ tls_of(inbound) \notin {"no_name", "string"}
  THEN tls_of(inbound) ELSE "none"

\* server = public_host or host or sni or base_host
choose_server(public_host, host, sni, base_host) ==
  IF public_host # "none" THEN public_host
  ELSE IF host # "none" THEN host
  ELSE IF sni # "none" THEN sni
  ELSE base_host

build_vless_url(inbound, cfg) ==
  LET server == choose_server(cfg.public_host, ws_host_of(inbound), sni_of(inbound),
                              cfg.base_host)
  IN
  IF protocol_of(inbound) # "vless" THEN NoVless
  ELSE IF sni_raises(inbound) THEN NoVless
  ELSE IF server = "none" \/ inbound.port = 0 THEN NoVless
  ELSE [server |-> server, port |-> inbound.port]

build_vless_url_call ==
  /\ helper.fn = "build_vless_url"
  /\ helper.pc = "call"
  /\ helper' = [helper EXCEPT !.pc = "returned",
                               !.out = build_vless_url(helper.inbound, helper.cfg)]
  /\ UNCHANGED <<users, orders, subs, payments, creds, chat, task, web, sent,
                 answered, callers, panel>>

\* --------------------------------------------------------- X3UIClient.login
\* Paths are sequences of segments; the subpaths login tries.
LoginSubpaths == << <<"login">>, <<"x3ui", "login">> >>
\* The request raises (-1) or is answered with an HTTP status.
LoginAnswers == {-1, 200, 204, 302, 401, 500}

\* seen/uniq of _candidates: the first occurrence of each path, in order.
RECURSIVE uniq(_)
uniq(paths) ==
  IF paths = <<>> THEN <<>>
  ELSE LET front == uniq(SubSeq(paths, 1, Len(paths) - 1))
           p == paths[Len(paths)]
       IN IF \E i \in 1..Len(front) : front[i] = p THEN front ELSE Append(front, p)

\* self._candidates(subpaths): every subpath under "" and then under the
\* base path, without duplicates.
candidates(base_path, subpaths) ==
  LET plain == subpaths
      based == [i \in 1..Len(subpaths) |-> base_path \o subpaths[i]]
  IN uniq(IF base_path # <<>> THEN plain \o based ELSE plain)

\* A client that takes only HTTP 200 for a successful login.
login_ok_only_200(status) == status = 200

\* 200 <= resp.status_code < 400
login_ok(status) == 200 <= status /\ status < 400

\* login up to its first POST: no credentials, no request.
login ==
  /\ helper.fn = "login"
  /\ helper.pc = "start"
  /\ helper' = IF helper.configured
               THEN [helper EXCEPT !.pc = "post", !.path = 1, !.body = "form"]
               ELSE [helper EXCEPT !.pc = "returned"]
  /\ UNCHANGED <<users, orders, subs, payments, creds, chat, task, web, sent,
                 answered, callers, panel>>

\* One login POST: a 2xx/3xx answer returns; an exception or another status
\* goes on to the JSON body, then to the next candidate path.
login_post(status) ==
  /\ helper.fn = "login"
  /\ helper.pc = "post"
  /\ status \in LoginAnswers
  /\ LET paths == candidates(helper.base_path, LoginSubpaths)
         sent_one == [helper EXCEPT !.requests = helper.requests + 1,
                                    !.last = status,
                                    !.target = paths[helper.path]]
     IN helper' =
          IF login_ok(status)
          THEN [sent_one EXCEPT !.pc = "returned", !.logged_in = TRUE]
          ELSE IF helper.body = "form" THEN [sent_one EXCEPT !.body = "json"]
          ELSE IF helper.path < Len(paths)
          THEN [sent_one EXCEPT !.path = helper.path + 1, !.body = "form"]
          ELSE [sent_one EXCEPT !.pc = "returned"]
  /\ UNCHANGED <<users, orders, subs, payments, creds, chat, task, web, sent,
                 answered, callers, panel>>

\* add_client and get_inbound go on to their own first request after
\* await self.login(), whatever login achieved.
after_login ==
  /\ helper.fn = "login"
  /\ helper.pc = "returned"
  /\ helper.caller \in {"add_client", "get_inbound"}
  /\ helper' = [helper EXCEPT !.pc = "requested", !.own_request = helper.caller]
  /\ UNCHANGED <<users, orders, subs, payments, creds, chat, task, web, sent,
                 answered, callers, panel>>

\* ---------------------------------------------------- X3UIClient.get_inbound
\* The subpaths of get_inbound, as segments; "N" is the requested inbound id.
InboundSubpaths ==
  << <<"panel", "api", "inbounds", "get", "N">>,
     <<"panel", "api", "inbounds", "list">>,
     <<"api", "inbounds", "get", "N">>,
     <<"api", "inbounds", "list">> >>

\* What the obj or data key of a JSON body can hold: nothing a dict or list
\* ("absent"), a dict whose id is the requested one, a dict with another id
\* and a port, a dict with neither, a list with an element of the requested
\* id, a list without one, a list whose elements are not dicts.
Shapes == {"absent", "dict_match", "dict_port", "dict_other", "list_match",
           "list_nomatch", "list_bad"}
\* What a GET can meet: the request raises, a status other than 200, a body
\* that is not JSON, JSON that is not a dict, or a dict with obj and data.
InboundResponses ==
  {[kind |-> k, obj |-> "absent", data |-> "absent"] :
     k \in {"raise", "500", "not_json", "not_dict"}}
  \cup [kind : {"dict"}, obj : Shapes, data : Shapes]
NoInbound == [ep |-> <<>>, via |-> "none", record |-> "none"]

\* A client that looks at the data key before the obj key.
envelope_data_first(resp) ==
  IF resp.data # "absent" THEN [via |-> "data", shape |-> resp.data]
  ELSE [via |-> "obj", shape |-> resp.obj]

\* obj = data.get("obj") when that is a dict or list, else data.get("data")
envelope(resp) ==
  IF resp.obj # "absent" THEN [via |-> "obj", shape |-> resp.obj]
  ELSE [via |-> "data", shape |-> resp.data]

\* The record the body of the loop returns for this envelope, if any.
record_of(shape) ==
  CASE shape = "dict_match" -> "object_with_id"
    [] shape = "dict_port" -> "object_with_port"
    [] shape = "list_match" -> "element_with_id"
    [] OTHER -> "none"

\* get_inbound up to its first GET: login, the candidate paths.
get_inbound ==
  /\ helper.fn = "get_inbound"
  /\ helper.pc = "start"
  /\ helper' = [helper EXCEPT !.pc = "get", !.ep = 1]
  /\ UNCHANGED <<users, orders, subs, payments, creds, chat, task, web, sent,
                 answered, callers, panel>>

\* One GET and the rest of the loop body.
get_inbound_get(resp) ==
  /\ helper.fn = "get_inbound"
  /\ helper.pc = "get"
  /\ resp \in InboundResponses
  /\ LET paths == candidates(helper.base_path, InboundSubpaths)
         got == [helper EXCEPT !.requests = helper.requests + 1, !.resp = resp]
         found == IF resp.kind = "dict" THEN record_of(envelope(resp).shape) ELSE "none"
     IN helper' =
          IF found # "none"
          THEN [got EXCEPT !.pc = "returned",
                           !.out = [ep |-> paths[helper.ep], via |-> envelope(resp).via,
                                    record |-> found]]
          ELSE IF helper.ep < Len(paths) THEN [got EXCEPT !.ep = helper.ep + 1]
          ELSE [got EXCEPT !.pc = "returned"]
  /\ UNCHANGED <<users, orders, subs, payments, creds, chat, task, web, sent,
                 answered, callers, panel>>

\* ------------------------- _try_refresh_order_status, statement by statement
\* Each call opens its own session.  The SELECT is awaited, so another
\* coroutine can run before the call goes on; from there to the commit the
\* call runs without yielding: the (blocking) status query, the comparison
\* with the status the SELECT loaded, the write.
RefreshCallers == {"deep_link", "task"}

\* order.status as this call's session holds it.
refresh_status_seen(call) == call.seen

\* await s.execute(select(Order).where(Order.id == order_id))
refresh_select(c) ==
  /\ helper.fn = "refresh"
  /\ helper.call[c].pc \in {"idle", "returned"}
  /\ helper' = [helper EXCEPT !.call[c] = [pc |-> "selected", seen |-> helper.status,
                                            ret |-> None]]
  /\ UNCHANGED <<users, orders, subs, payments, creds, chat, task, web, sent,
                 answered, callers, panel>>

\* Payment.find_one, then the write and the commit, or return None.
refresh_write(c, ans) ==
  /\ helper.fn = "refresh"
  /\ helper.call[c].pc = "selected"
  /\ ans \in {"raise", helper.remote}
  /\ LET seen == refresh_status_seen(helper.call[c])
         new == IF ans = "succeeded" /\ seen # PAID THEN PAID
                ELSE IF ans = "canceled" /\ seen # CANCELED THEN CANCELED
                ELSE None
     IN helper' = [helper EXCEPT
                     !.status = IF new # None THEN new ELSE helper.status,
                     !.call[c] = [pc |-> "returned", seen |-> seen, ret |-> new],
                     !.paid_to = IF new = PAID THEN helper.paid_to \cup {c}
                                 ELSE helper.paid_to,
                     !.paid_returns = IF new = PAID /\ helper.paid_returns < 2
                                      THEN helper.paid_returns + 1
                                      ELSE helper.paid_returns]
  /\ UNCHANGED <<users, orders, subs, payments, creds, chat, task, web, sent,
                 answered, callers, panel>>

\* The user pays or cancels on the gateway's page; both are final.
refresh_gateway(s) ==
  /\ helper.fn = "refresh"
  /\ helper.remote = "pending"
  /\ s \in {"succeeded", "canceled"}
  /\ helper' = [helper EXCEPT !.remote = s]
  /\ UNCHANGED <<users, orders, subs, payments, creds, chat, task, web, sent,
                 answered, callers, panel>>

\* ------------------------------------------------ the helpers, one call each
\* One call of one helper function on arguments drawn from that function's
\* inputs; nothing else of the bot runs meanwhile.
InitHelpers ==
  /\ users = <<>>
  /\ orders = <<>>
  /\ subs = <<>>
  /\ payments = <<>>
  /\ creds = TRUE
  /\ chat = [u \in TgUsers |-> IdleRun]
  /\ task = [o \in OrderIds |-> NoTask]
  /\ web = IdleRun
  /\ sent = NoMsg
  /\ answered = {}
  /\ panel = NoPanelRun
  /\ callers = [c \in CallerIds |-> NoCall]
  /\ \/ \E url \in Urls \cup {NoUrl} :
          helper = [fn |-> "sanitize", arg |-> url, out |-> NoUrl, done |-> FALSE]
     \/ \E url \in {"none", "sub_url"} :
          helper = [fn |-> "resolve", url |-> url, pc |-> "start", attempt |-> 0,
                    fetches |-> 0, resp |-> NoResponse, out |-> "none"]
     \/ \E code \in PlanCodeStrings, payment_id \in RemoteIds :
          helper = [fn |-> "external_id", code |-> code, payment_id |-> payment_id,
                    pc |-> "new", ext |-> <<>>, read |-> "none", plan |-> <<>>,
                    plan_success |-> <<>>, paid_with |-> <<>>]
     \/ \E inbound \in Inbounds, cfg \in [public_host : {"none", "public.host"},
                                        base_host : {"none", "panel.host"}] :
          helper = [fn |-> "build_vless_url", inbound |-> inbound, cfg |-> cfg,
                    pc |-> "call", out |-> NoVless]
     \/ \E caller \in {"login", "add_client", "get_inbound"}, configured \in BOOLEAN, base_path \in {<<>>, <<"x3ui">>, <<"secret">>} :
          helper = [fn |-> "login", caller |-> caller, configured |-> configured,
                    base_path |-> base_path, pc |-> "start", path |-> 0, body |-> "",
                    requests |-> 0, last |-> 0, target |-> <<>>, logged_in |-> FALSE,
                    own_request |-> "none"]
     \/ helper = [fn |-> "refresh", status |-> PENDING, remote |-> "pending",
                  call |-> [c \in RefreshCallers |->
                              [pc |-> "idle", seen |-> PENDING, ret |-> None]],
                  paid_to |-> {}, paid_returns |-> 0]
     \/ \E base_path \in {<<>>, <<"panel">>} :
          helper = [fn |-> "get_inbound", base_path |-> base_path, pc |-> "start",
                    ep |-> 0, requests |-> 0,
                    resp |-> [kind |-> "none", obj |-> "absent", data |-> "absent"],
                    out |-> NoInbound]

NextHelpers ==
  \/ sanitize_call
  \/ resolve_start
  \/ \E resp \in SubResponses : resolve_get(resp)
  \/ ext_create
  \/ ext_store
  \/ ext_read
  \/ build_vless_url_call
  \/ login
  \/ \E status \in LoginAnswers : login_post(status)
  \/ after_login
  \/ get_inbound
  \/ \E resp \in InboundResponses : get_inbound_get(resp)
  \/ \E c \in RefreshCallers : refresh_select(c)
  \/ \E c \in RefreshCallers, ans \in RemoteStatuses \cup {"raise"} : refresh_write(c, ans)
  \/ \E s \in RemoteStatuses : refresh_gateway(s)

SpecHelpers == InitHelpers /\ [][NextHelpers]_vars

\* ------------------------------------------- /check with the panel's answers
\* cmd_check past its guard calls x3.add_client with the note of the caller.
cmd_check_add_client(u) ==
  /\ chat[u].pc = "check_add"
  /\ panel.pc = "idle"
  /\ add_client(IF u = 1 THEN "tg_1" ELSE "tg_2")

\* add_client has returned its result, after a success response or after
\* the last endpoint: cmd_check resolves the link, stores the Subscription
\* with the result's uuid and sends the confirmation.
cmd_check_created(u, configured, resolved) ==
  /\ chat[u].pc = "check_add"
  /\ panel.pc = "done"
  /\ resolved \in Resolutions
  /\ Len(subs) < MaxSubs
  /\ LET created == [uuid |-> panel.result.uuid, config_url |-> panel.result.config_url]
         url == stored_url(created, configured, resolved)
     IN /\ subs' = Append(subs, NewSubOf(UserRowId(users, u), chat[u].days,
                                         chat[u].order, created, url))
        /\ sent' = created_text(u, created, url)
  /\ chat' = [chat EXCEPT ![u] = IdleRun]
  /\ panel' = [panel EXCEPT !.pc = "idle"]
  /\ UNCHANGED <<helper, users, orders, payments, creds, task, web, answered, callers>>

\* /check of chat account 1 on a paid order, with every answer the panel can
\* give to every create request.
NextProvision ==
  \/ cmd_check(1)
  \/ cmd_check_guard(1)
  \/ cmd_check_add_client(1)
  \/ \E answer \in Responses : add_client_post(answer)
  \/ \E configured \in BOOLEAN, resolved \in Resolutions :
       cmd_check_created(1, configured, resolved)

SpecProvision == InitPaid /\ [][NextProvision]_vars

\* ------------------------------------- two orders, /check and the deep-link
\* One chat account that buys twice, sends /check and follows deep-links
\* naming either order.
NextLatest ==
  \/ Tick
  \/ \E p \in OrderIds : GatewayPay(p)
  \/ cb_plan_choose(1, "m3", 2)
  \/ cb_plan_choose_pay(1, "url")
  \/ \E u \in TgUsers : cmd_check(u)
  \/ cmd_check_guard(1)
  \/ \E created \in BOOLEAN : cmd_check_persist(1, created)
  \/ \E o \in OrderIds : cmd_start(1, o)
  \/ cmd_start_guard(1)
  \/ \E created \in BOOLEAN : cmd_start_persist(1, created)
  \/ \E o \in OrderIds : auto_check_poll(o)
  \/ \E o \in OrderIds : auto_check_guard(o)
  \/ \E o \in OrderIds : auto_check_persist(o, TRUE)

SpecLatest == Init /\ [][NextLatest]_vars

\* --------------------------------------- one order, every run to completion
\* A poll of the task that the gateway answers.
auto_check_poll_answered(o) ==
  /\ o \in 1..Len(orders)
  /\ task[o].pc = "sleep"
  /\ task[o].wait = 0
  /\ \E ans \in AnswersFor(o) \ {"raise"} : auto_check_answered(o, ans)
  /\ UNCHANGED <<helper, panel, callers, users, subs, payments, creds, chat, web>>

\* One chat account buys one plan and pays; the webhook, the task and /check
\* confirm; the gateway answers every query of the task and the panel
\* accepts every client.
NextLive ==
  \/ Tick
  \/ GatewayPay(1)
  \/ cb_plan_choose(1, "m3", 1)
  \/ cb_plan_choose_pay(1, "url")
  \/ yk_callback(1)
  \/ yk_callback_write
  \/ auto_check_poll_answered(1)
  \/ auto_check_guard(1)
  \/ auto_check_persist(1, TRUE)
  \/ cmd_check(1)
  \/ cmd_check_guard(1)
  \/ cmd_check_persist(1, TRUE)

\* The event loop runs every started coroutine on: the task's sleeps end and
\* its polls, guard and provisioning run, a handler that has started
\* finishes.  Nothing makes the user pay or send /check, nor the gateway
\* send its notification.
SpecLive ==
  /\ Init
  /\ [][NextLive]_vars
  /\ WF_vars(Tick)
  /\ WF_vars(cb_plan_choose_pay(1, "url"))
  /\ WF_vars(yk_callback_write)
  /\ WF_vars(auto_check_poll_answered(1))
  /\ WF_vars(auto_check_guard(1))
  /\ WF_vars(auto_check_persist(1, TRUE))
  /\ WF_vars(cmd_check_guard(1))
  /\ WF_vars(cmd_check_persist(1, TRUE))

\* ================================================================== claims
\* The subscription rows provisioned by runs that examined order o within the
\* guard window.
RecentSubsOfOrder(o) ==
  {i \in 1..Len(subs) : subs[i].order = o /\ subs[i].age <= GuardMinutes}

\* C1: whatever the interleaving of the provisioning triggers (/check, the
\* deep-link, the auto-check task, the success-return route) on one paid
\* order, at most one Subscription row is created for that order within the
\* 10-minute guard window.
C1_OneSubscriptionPerOrder ==
  \A o \in OrderIds : Cardinality(RecentSubsOfOrder(o)) <= 1

\* C2: an order's status only ever changes PENDING -> PAID or
\* PENDING -> CANCELED; once PAID or CANCELED no operation changes it,
\* whatever the gateway answers.
C2_TerminalStatusFinal ==
  [][\A o \in 1..Len(orders) :
       orders'[o].status # orders[o].status
         => /\ orders[o].status = PENDING
            /\ orders'[o].status \in {PAID, CANCELED}]_vars

\* C3: a PAID order has had the gateway answer "succeeded" for its own
\* payment, a CANCELED order has had it answer "canceled"; no trigger writes
\* either status without such an answer.
C3_StatusFollowsGateway ==
  \A o \in 1..Len(orders) :
    /\ orders[o].status = PAID
         => /\ HasPaymentId(o)
            /\ <<PaymentIdOf(orders[o].external_id), "succeeded">> \in answered
    /\ orders[o].status = CANCELED
         => /\ HasPaymentId(o)
            /\ <<PaymentIdOf(orders[o].external_id), "canceled">> \in answered
    /\ orders[o].status \in {PENDING, PAID, CANCELED}

\* C3 witness: one order confirmed PAID and written by a trigger.
C3_Witness ==
  \E o \in 1..Len(orders) :
    /\ orders[o].status = PAID
    /\ <<PaymentIdOf(orders[o].external_id), "succeeded">> \in answered

\* C4: /check run twice in succession on an order that is already PAID, the
\* second run inside the 10-minute guard window, leaves the order PAID and
\* the number of Subscription rows what it was after the first run: of the
\* rows that /check creates, never two are within one guard window.
C4_CheckTwice ==
  /\ \A o \in 1..Len(orders) : orders[o].status = PAID
  /\ Cardinality({i \in 1..Len(subs) : subs[i].age <= GuardMinutes}) <= 1

\* C4 witness: the first run has provisioned, the second run, inside the
\* window, has answered that the subscription is already active.
C4_Witness ==
  /\ Len(subs) = 1
  /\ subs[1].age <= GuardMinutes
  /\ sent.msg = "already_active"
  /\ orders[subs[1].order].status = PAID

\* days(c) as the claim lists them.
C5_Days(code) ==
  CASE code = "m1" -> 30
    [] code = "m3" -> 90
    [] code = "m6" -> 180
    [] code = "y1" -> 365
    [] OTHER -> DefaultPlanDays

\* C5: for an order with plan code c whose payment has succeeded,
\* provisioning creates exactly one Subscription row, owned by the order's
\* user, with expires_at = provisioning time + days(c).
C5_ProvisionedRow ==
  [][Len(subs') # Len(subs)
       => /\ Len(subs') = Len(subs) + 1
          /\ LET r == subs'[Len(subs')]
                 o == r.order
             IN /\ r.user_id = orders[o].user_id
                /\ r.age = 0
                /\ r.term = C5_Days(PlanCodeOf(orders[o].external_id)) * DayMinutes
                /\ payments[PaymentIndex(PaymentIdOf(orders[o].external_id))].status
                     = "succeeded"]_vars

\* C6: every add_client call is preceded, in the same run, by the guard's
\* lookup, and is not made when the lookup found a recent subscription; on
\* every path that provisions, the success-return route included.
C6_GuardBeforeAddClient ==
  /\ \A u \in TgUsers : chat[u].pc \in {"check_add", "start_add"} => chat[u].guard
  /\ \A o \in OrderIds : task[o].pc = "add" => task[o].guard
  /\ web.pc = "succ_add" => web.guard

\* The orders examined by the runs that stand at or past the point where
\* provisioning starts.
ProvisioningOrders ==
  {chat[u].order : u \in {v \in TgUsers :
       chat[v].pc \in {"check_guard", "check_add", "start_guard", "start_add"}}}
  \cup {o \in OrderIds : task[o].pc \in {"guard", "add"}}
  \cup (IF web.pc = "succ_add" THEN {web.order} ELSE {})

\* C7: provisioning happens only in a run that has observed its order PAID;
\* no Subscription row is created by a run whose order is PENDING or CANCELED.
C7_ProvisionOnlyPaid ==
  /\ \A o \in ProvisioningOrders : orders[o].status = PAID
  /\ \A i \in 1..Len(subs) : orders[subs[i].order].status = PAID

\* C7 witness: a run has just provisioned, and its order is PAID.
C7_Witness ==
  /\ Len(subs) >= 1
  /\ orders[subs[1].order].status = PAID
  /\ sent.msg = "created"

\* C8: the idempotency guard is per order: it suppresses provisioning for a
\* paid order only when a subscription funded by that same order was created
\* in the last 10 minutes, so two paid orders of one user confirmed within 10
\* minutes each get their own Subscription.
C8_GuardPerOrder ==
  [][/\ \A u \in TgUsers :
          (chat[u].pc \in {"check_guard", "start_guard"} /\ chat'[u].pc = "idle")
            => RecentSubsOfOrder(chat[u].order) # {}
     /\ \A o \in OrderIds :
          (task[o].pc = "guard" /\ task'[o].pc = "done")
            => RecentSubsOfOrder(o) # {}]_vars

\* C9: the auto-check task makes at most 3 polls, each after one wait
\* interval, and then ends; if no poll returns a new PAID status it makes no
\* further attempt and creates no Subscription.
C9_TaskBounded ==
  [][\A o \in OrderIds :
       /\ task[o].attempt <= MaxAttempts
       /\ task[o].pc = "sleep" => task[o].attempt < MaxAttempts
       /\ task'[o].attempt # task[o].attempt
            => /\ task[o].pc = "sleep"
               /\ task[o].wait = 0
               /\ task'[o].attempt = task[o].attempt + 1
       /\ (task'[o].pc = "sleep"
             /\ (task[o].pc # "sleep" \/ task'[o].attempt # task[o].attempt))
            => task'[o].wait = SleepMinutes
       /\ task'[o].wait < task[o].wait
            => /\ task'[o].wait = Rest(task[o].wait)
               /\ task'[o].pc = task[o].pc
       /\ task[o].pc = "done" => task'[o] = task[o]
       /\ (task'[o].pc = "guard" /\ task[o].pc # "guard")
            => /\ task[o].pc = "sleep"
               /\ orders[o].status # PAID
               /\ orders'[o].status = PAID
       /\ (task'[o].pc = "add" /\ task[o].pc # "add") => task[o].pc = "guard"
       /\ (task'[o].pc # task[o].pc /\ Len(subs') # Len(subs))
            => task[o].pc = "add"]_vars

\* C9 witness: the task has ended after its third poll, none of which saw the
\* order paid, and nothing is provisioned.
C9_Witness ==
  \E o \in 1..Len(orders) :
    /\ task[o].pc = "done"
    /\ task[o].attempt = MaxAttempts
    /\ orders[o].status = PENDING
    /\ subs = <<>>

\* The step of chat account u that inserts an order for a known plan.
C10_Selects(u) == chat[u].pc = "idle" /\ chat'[u].pc = "pay"
\* The step of chat account u that ends its plan selection.
C10_Returns(u) == chat[u].pc = "pay" /\ chat'[u].pc = "idle"

\* Selecting a known plan creates exactly one Order, of the selecting user,
\* with the plan's price, "RUB" and PENDING; an unknown code creates none.
C10_Creation ==
  /\ \A u \in TgUsers :
       C10_Selects(u)
         => /\ Len(orders') = Len(orders) + 1
            /\ \A o \in 1..Len(orders) : orders'[o] = orders[o]
            /\ LET r == orders'[Len(orders')]
                   code == PlanCodeOf(r.external_id)
               IN /\ r.user_id \in 1..Len(users')
                  /\ users'[r.user_id] = u
                  /\ get_plan_by_code(code) # NoPlan
                  /\ r.amount = get_plan_by_code(code).price
                  /\ code = "y1" => r.amount = 1500
                  /\ r.currency = "RUB"
                  /\ r.status = PENDING
  /\ Len(orders') # Len(orders) => \E u \in TgUsers : C10_Selects(u)
  /\ sent'.msg = "plan_not_found" => orders' = orders

\* C10 as stated: ... and when gateway credentials are configured a non-null
\* payment URL is stored and returned.
C10_UrlWheneverConfigured ==
  [][/\ C10_Creation
     /\ \A u \in TgUsers :
          (C10_Returns(u) /\ creds)
            => /\ orders'[chat[u].order].payment_url # None
               /\ sent' = [to |-> u, msg |-> "invoice"]]_vars

\* C10: selecting a known plan creates exactly one Order owned by the
\* selecting user with amount = plan price (y1: 1500), currency "RUB" and
\* status PENDING; when gateway credentials are configured and the gateway
\* creates the payment with a confirmation URL, that URL is stored in the
\* order and returned, and otherwise none is returned; selecting an unknown
\* plan code creates no Order.
C10_UrlWhenGatewayGivesOne ==
  [][/\ C10_Creation
     /\ \A u \in TgUsers :
          C10_Returns(u)
            => LET o == chat[u].order
                   given == /\ creds
                            /\ Len(payments') = Len(payments) + 1
                            /\ payments'[Len(payments')].order_id = o
                            /\ payments'[Len(payments')].confirmation_url # None
               IN /\ given
                       => /\ orders'[o].payment_url
                               = payments'[Len(payments')].confirmation_url
                          /\ sent' = [to |-> u, msg |-> "invoice"]
                  /\ ~given
                       => /\ orders'[o].payment_url = None
                          /\ sent'.msg # "invoice"]_vars

\* C10 witness: a y1 order of 1500 RUB whose payment URL was stored and
\* returned in the invoice.
C10_Witness ==
  \E o \in 1..Len(orders) :
    /\ PlanCodeOf(orders[o].external_id) = "y1"
    /\ orders[o].amount = 1500
    /\ orders[o].payment_url # None
    /\ sent = [to |-> users[orders[o].user_id], msg |-> "invoice"]

\* The orders whose payment the gateway reports as neither succeeded nor
\* canceled.
RemotePending ==
  {o \in 1..Len(orders) :
     /\ HasPaymentId(o)
     /\ payments[PaymentIndex(PaymentIdOf(orders[o].external_id))].status = "pending"}

C12_Frames ==
  /\ \A u \in TgUsers :
       (/\ cmd_check_raising(u)
        /\ LatestOrderOf(u) # 0
        /\ orders[LatestOrderOf(u)].status # PAID
        /\ HasPaymentId(LatestOrderOf(u)))
         => /\ orders' = orders
            /\ subs' = subs
            /\ chat'[u] = IdleRun
            /\ sent' = [to |-> u, msg |-> "status_wait"]
  /\ \A u \in TgUsers, o \in OrderIds :
       cmd_start_raising(u, o)
         => /\ orders' = orders
            /\ subs' = subs
            /\ chat'[u].pc = "check"
  /\ \A o \in OrderIds :
       auto_check_raising(o)
         => /\ orders' = orders
            /\ subs' = subs
            /\ task'[o].attempt = task[o].attempt + 1
            /\ IF task[o].attempt + 1 < MaxAttempts
               THEN task'[o].pc = "sleep" /\ task'[o].wait = SleepMinutes
               ELSE task'[o].pc = "done"
  /\ \A o \in OrderIds : task[o].pc \notin {"guard", "add"}

Unpayable == {o \in 1..Len(orders) : ~HasPaymentId(o)}

\* C13: when payment-session creation fails with a gateway authorization
\* error, or the gateway credentials are missing, the failure is reported to
\* the user, the creation is not retried, no auto-check task is scheduled,
\* and the order stays PENDING with no payment URL.
C13_CreationFailure ==
  [][/\ \A u \in TgUsers :
          (cb_plan_choose_pay(u, "unauthorized") \/ (C10_Returns(u) /\ ~creds))
            => /\ sent' = [to |-> u,
                           msg |-> IF creds THEN "gateway_unauthorized"
                                            ELSE "no_credentials"]
               /\ chat'[u] = IdleRun
               /\ payments' = payments
               /\ orders' = orders
               /\ task' = task
               /\ chat[u].order \in Unpayable
     /\ \A o \in Unpayable :
          /\ orders[o].status = PENDING
          /\ orders[o].payment_url = None
          /\ task[o].pc = "none"
          /\ (\A u \in TgUsers : ~(chat[u].pc = "pay" /\ chat[u].order = o))
               => orders'[o] = orders[o] /\ task'[o] = task[o]]_vars

\* C13 witness: the gateway refused the credentials; the user was told, the
\* order is PENDING without a payment URL and has no task.
C13_Witness ==
  \E o \in Unpayable, u \in TgUsers :
    /\ creds
    /\ sent = [to |-> u, msg |-> "gateway_unauthorized"]
    /\ chat[u].pc = "idle"
    /\ users[orders[o].user_id] = u
    /\ orders[o].status = PENDING
    /\ orders[o].payment_url = None
    /\ task[o].pc = "none"

\* The task of order o has given up, the order is still PENDING and the
\* gateway now reports "succeeded" for its payment.
C14_GaveUp(o) ==
  /\ task[o].pc = "done"
  /\ HasPaymentId(o)
  /\ orders[o].status = PENDING
  /\ PaymentExists(PaymentIdOf(orders[o].external_id))
  /\ payments[PaymentIndex(PaymentIdOf(orders[o].external_id))].status = "succeeded"

\* A /check of chat account u whose status query, if it makes one, is answered.
C14_Check(u) ==
  /\ cmd_check(u)
  /\ LatestOrderOf(u) # 0
  /\ \E ans \in (IF orders[LatestOrderOf(u)].status # PAID
                  THEN AnswersFor(LatestOrderOf(u)) \ {"raise"}
                  ELSE {"skip"}) :
       cmd_check_answered(u, LatestOrderOf(u), ans)

\* C14: after the background task has given up, a later /check by the owner,
\* issued while the gateway reports "succeeded" for the payment of the owner's
\* order, sets that order to PAID and goes on to provision it: an order whose
\* payment succeeded is always still resolvable by /check.
C14_CheckResolves ==
  [][\A o \in 1..Len(orders) :
       (C14_GaveUp(o) /\ C14_Check(TaskUser(o)))
         => /\ orders'[o].status = PAID
            /\ chat'[TaskUser(o)].pc = "check_guard"
            /\ chat'[TaskUser(o)].order = o]_vars

\* C14 witness: a paid order whose task gave up, and whose owner has a newer
\* order, so that /check does not look at it.
C14_Witness ==
  \E o \in 1..Len(orders) :
    /\ C14_GaveUp(o)
    /\ LatestOrderOf(TaskUser(o)) # o
    /\ chat[TaskUser(o)].pc = "idle"

\* The payment row the gateway holds for a notification's payment id.
C15_Remote(event) == payments[PaymentIndex(event.id)]

\* C15: the webhook's effect on the store depends only on the status the
\* gateway returns when re-queried for the event's payment id, not on the
\* event body: two events with the same payment id and different bodies lead
\* to the same state, and the order touched is the one the payment's metadata
\* names.
C15_BodyIgnored ==
  [][/\ \A e1 \in Events, e2 \in Events :
          (e1.id = e2.id /\ yk_callback_event(e1)) => yk_callback_event(e2)
     /\ \A e \in Events :
          (yk_callback_event(e) /\ PaymentExists(e.id))
            => /\ orders' = orders
               /\ web'.pc = (CASE C15_Remote(e).status = "succeeded" -> "cb_paid"
                               [] C15_Remote(e).status = "canceled" -> "cb_canceled"
                               [] OTHER -> "idle")
               /\ web'.pc # "idle" => web'.order = C15_Remote(e).order_id
     /\ (web.pc \in {"cb_paid", "cb_canceled"} /\ web'.pc = "idle")
          => /\ orders'[web.order].status
                  = (IF web.pc = "cb_paid" THEN PAID ELSE CANCELED)
             /\ \A o \in 1..Len(orders) : o # web.order => orders'[o] = orders[o]
             /\ PaymentIdOf(orders[web.order].external_id) \in
                  {PaymentIds[i] : i \in {i \in 1..Len(payments) :
                                             payments[i].order_id = web.order}}]_vars

\* C15 witness: a notification was handled and the order named by the
\* payment's metadata is PAID while the other order is not.
C15_Witness ==
  /\ web.pc = "idle"
  /\ sent.msg = "payment_accepted"
  /\ Len(orders) = 2
  /\ \E i \in 1..Len(payments) :
       /\ payments[i].status = "succeeded"
       /\ orders[payments[i].order_id].status = PAID
       /\ \A o \in 1..Len(orders) : o # payments[i].order_id => orders[o].status = PENDING

\* The users rows of chat account tg.
C16_RowsOf(us, tg) == {i \in 1..Len(us) : us[i] = tg}

\* C16: for every interleaving of concurrent ensure_user calls for the same
\* chat account, the users table holds exactly one row for the account once
\* a call has returned, every caller gets that same row, and no users row is
\* ever deleted or changed.
C16_OneUserRow ==
  [][/\ \A tg \in TgUsers : Cardinality(C16_RowsOf(users', tg)) <= 1
     /\ \A c \in CallerIds :
          (callers[c].pc = "commit" /\ callers'[c].pc = "idle")
            => C16_RowsOf(users', c[1]) = {callers'[c].got}
     /\ \A c \in CallerIds, d \in CallerIds :
          (c[1] = d[1] /\ callers'[c].got # 0 /\ callers'[d].got # 0)
            => callers'[c].got = callers'[d].got
     /\ Len(users') >= Len(users)
     /\ \A i \in 1..Len(users) : users'[i] = users[i]]_vars

\* C16 witness: two calls for one chat account overlapped, the INSERT of one
\* was ignored, and both returned the same row.
C16_Witness ==
  \E c \in CallerIds, d \in CallerIds :
    /\ c # d
    /\ c[1] = d[1]
    /\ callers[c].pc = "idle"
    /\ callers[d].pc = "idle"
    /\ callers[d].raced
    /\ callers[c].got # 0
    /\ callers[c].got = callers[d].got
    /\ users[callers[c].got] = c[1]

\* C17: add_client walks endpoints and payload shapes in a fixed order and
\* stops at the first response classified as success, an HTTP 200 with an
\* empty body or with a recognized success marker: no further create request
\* follows, and the result carries the uuid and note of the accepted request.
C17_StopsAtFirstSuccess ==
  [][\A answer \in {"empty", "ok", "ok_link"} :
       add_client_post(answer)
         => /\ panel'.pc = "done"
            /\ panel'.result.uuid = panel'.last.id
            /\ panel'.result.note = panel'.last.email]_vars

\* C17 witness: a call that went on after an empty HTTP 200 and was later
\* accepted at another payload or endpoint.
C17_Witness ==
  /\ panel.pc = "done"
  /\ panel.emptied # <<0, 0>>
  /\ panel.resp \in {"ok", "ok_link"}
  /\ <<panel.last.ep, panel.last.pf>> # panel.emptied

\* C18: an HTTP 200 with an empty body is treated as success: after it no
\* create request is sent to another endpoint or with another payload shape.
C18_EmptyBodyIsSuccess ==
  panel.emptied # <<0, 0>> => <<panel.last.ep, panel.last.pf>> = panel.emptied

\* C18 witness: every response was an empty HTTP 200 and the call ran through
\* every endpoint and payload shape.
C18_Witness ==
  /\ panel.pc = "done"
  /\ panel.emptied = <<1, 1>>
  /\ panel.resp = "empty"
  /\ panel.requests = 2 * Len(Endpoints) * Len(Payloads)

\* The place of the next request in the fixed order of endpoints, payload
\* shapes and encodings.
C19_Rank(run) ==
  3 * (Len(Payloads) * (run.ep - 1) + (run.pf - 1))
    + (CASE run.stage = "json" -> 0 [] run.stage = "raw" -> 1 [] OTHER -> 2)

\* C19: when every create request answers HTTP 500 or raises, add_client
\* ends after a bounded number of requests, does not raise, and returns the
\* generated uuid, the given note and no config URL.
C19_AllFail ==
  [][panel.pc = "post"
       => /\ panel'.pc \in {"post", "done"}
          /\ panel'.requests = panel.requests + 1
          /\ panel'.requests <= 3 * Len(Endpoints) * Len(Payloads)
          /\ panel'.pc = "post" => C19_Rank(panel') > C19_Rank(panel)
          /\ (panel'.pc = "done" /\ panel'.all_failed)
               => /\ panel'.result = [uuid |-> panel.uuid, note |-> panel.note,
                                      config_url |-> "none"]
                  /\ panel.uuid # 0
                  /\ panel'.requests = Len(Endpoints) * Len(Payloads)]_vars

\* C19 witness: a call whose every request failed has returned.
C19_Witness ==
  /\ panel.pc = "done"
  /\ panel.all_failed
  /\ panel.requests = Len(Endpoints) * Len(Payloads)
  /\ panel.result.uuid = panel.uuid
  /\ panel.result.config_url = "none"

\* add_client returned no link and the subscription endpoint is not
\* configured or gave nothing.
C20_NoLink(created, configured, resolved) ==
  /\ created.config_url = "none"
  /\ ~configured \/ resolved = "none"

\* C20: provisioning is not blocked on link resolution: when add_client
\* returns no config URL and the remote resolution yields nothing, or no
\* subscription endpoint is configured, the handler still persists the
\* Subscription row with the created uuid and still sends the user a message
\* containing the uuid.
C20_ProvisionedWithoutLink ==
  [][\A created \in CreatedResults, configured \in BOOLEAN, resolved \in Resolutions :
       C20_NoLink(created, configured, resolved)
         => /\ \A u \in TgUsers :
                 cmd_check_provision(u, created, configured, resolved)
                   => /\ Len(subs') = Len(subs) + 1
                      /\ subs'[Len(subs')].xray_uuid = created.uuid
                      /\ subs'[Len(subs')].user_id = UserRowId(users, u)
                      /\ sent'.to = u
                      /\ sent'.msg = "created"
                      /\ sent'.uuid = created.uuid
            /\ \A o \in OrderIds :
                 auto_check_provision(o, created, configured, resolved)
                   => /\ Len(subs') = Len(subs) + 1
                      /\ subs'[Len(subs')].xray_uuid = created.uuid
                      /\ subs'[Len(subs')].user_id = UserRowId(users, TaskUser(o))
                      /\ sent'.to = TaskUser(o)
                      /\ sent'.msg = "created"
                      /\ sent'.uuid = created.uuid]_vars

\* C20 witness: a Subscription row without any link was persisted and its
\* uuid was sent with the advice to fetch the link from the panel.
C20_Witness ==
  /\ Len(subs) > 0
  /\ subs[Len(subs)].config_url = "none"
  /\ sent.msg = "created"
  /\ sent.hint = "manual"
  /\ sent.uuid = subs[Len(subs)].xray_uuid

\* The fragment, read as text, has a hyphen directly followed by a digit.
HasHyphenDigit(s) == \E i \in 1..Len(s) - 1 : s[i] = "-" /\ IsDigit(s[i + 1])

\* The text before the first hyphen that is directly followed by a digit.
C22_Cut(s) ==
  IF HasHyphenDigit(s)
  THEN SubSeq(s, 1, (CHOOSE i \in 1..Len(s) - 1 :
                       /\ s[i] = "-" /\ IsDigit(s[i + 1])
                       /\ \A j \in 1..i - 1 : ~(s[j] = "-" /\ IsDigit(s[j + 1]))) - 1)
  ELSE s

\* C22: sanitize_config_link cuts the fragment at the first hyphen directly
\* followed by a digit and keeps scheme, host, path and query; a link whose
\* fragment is empty or has no hyphen-digit pair is returned unchanged.
C22_CutsAtHyphenDigit ==
  (helper.fn = "sanitize" /\ helper.done /\ helper.arg # NoUrl)
    => /\ helper.out.scheme = helper.arg.scheme
       /\ helper.out.netloc = helper.arg.netloc
       /\ helper.out.path = helper.arg.path
       /\ helper.out.query = helper.arg.query
       /\ ~HasHyphenDigit(helper.out.fragment)
       /\ HasHyphenDigit(helper.arg.fragment)
            => helper.out.fragment = C22_Cut(helper.arg.fragment)
       /\ ~HasHyphenDigit(helper.arg.fragment) => helper.out = helper.arg

\* C22 witness: a fragment with a line feed after the hyphen-digit pair went
\* through sanitize_config_link and kept the pair.
C22_Witness ==
  /\ helper.fn = "sanitize"
  /\ helper.done
  /\ helper.arg.fragment = <<"-", "1", "%0A", "a">>
  /\ HasHyphenDigit(helper.out.fragment)

\* C21: every configuration link a handler shows has first been passed
\* through sanitize_config_link, so that no displayed link's fragment has a
\* hyphen-digit suffix.
C21_ShownLinksSanitized ==
  sent.msg = "link"
    => /\ sent.link = sanitize_config_link(helper.arg)
       /\ ~HasHyphenDigit(sent.link.fragment)

\* C21 witness: the success-return route showed a link with the suffix.
C21_Witness ==
  /\ sent.msg = "link"
  /\ sent.site = "success"
  /\ helper.arg.fragment = <<"a", "-", "1">>
  /\ sent.link.fragment = <<"a", "-", "1">>

\* C23, as stated: once an Order row exists, only its status ever changes,
\* and no Order row is deleted.
C23_OnlyStatusChanges ==
  [][/\ Len(orders') >= Len(orders)
     /\ \A o \in 1..Len(orders) :
          orders'[o] = [orders[o] EXCEPT !.status = orders'[o].status]]_vars

\* C23: no Order row is deleted; owner, amount and currency keep the values
\* of creation; the external reference and the payment URL are written once
\* more, by the plan-selection handler that created the row when it stores
\* the payment session, and never after that; every other change is a change
\* of status.
C23_FrozenAfterPaymentStored ==
  [][/\ Len(orders') >= Len(orders)
     /\ \A o \in 1..Len(orders) :
          /\ orders'[o].user_id = orders[o].user_id
          /\ orders'[o].amount = orders[o].amount
          /\ orders'[o].currency = orders[o].currency
          /\ (orders'[o].external_id # orders[o].external_id
                \/ orders'[o].payment_url # orders[o].payment_url)
               => /\ chat[TaskUser(o)].pc = "pay"
                  /\ chat[TaskUser(o)].order = o
                  /\ chat'[TaskUser(o)].pc = "idle"
                  /\ ~HasPaymentId(o)
                  /\ orders[o].payment_url = None
                  /\ orders'[o].status = orders[o].status
                  /\ PlanCodeOf(orders'[o].external_id) = PlanCodeOf(orders[o].external_id)]_vars

\* C23 witness: an order whose payment session was stored has since changed
\* its status and kept the stored reference and URL.
C23_Witness ==
  \E o \in 1..Len(orders) :
    /\ HasPaymentId(o)
    /\ orders[o].payment_url = PaymentIdOf(orders[o].external_id)
    /\ orders[o].status = PAID
    /\ orders[o].amount = 500

\* C24: each successful provisioning inserts exactly one Subscription row,
\* with the active flag set, and no operation afterwards modifies or deletes
\* a row: owner, uuid, expiry, URL and active flag are frozen (only the
\* row's age, which is the clock's, moves).
C24_SubscriptionsFrozen ==
  [][/\ Len(subs') \in {Len(subs), Len(subs) + 1}
     /\ \A i \in 1..Len(subs) :
          /\ subs'[i] = [subs[i] EXCEPT !.age = subs'[i].age]
          /\ subs'[i].age >= subs[i].age
     /\ Len(subs') = Len(subs) + 1
          => /\ subs'[Len(subs')].is_active
             /\ subs'[Len(subs')].age = 0
             /\ chat[1].pc = "check_add" \/ \E o \in OrderIds : task[o].pc = "add"
     /\ \A created \in CreatedResults, configured \in BOOLEAN, resolved \in Resolutions :
          (cmd_check_provision(1, created, configured, resolved)
             \/ \E o \in OrderIds : auto_check_provision(o, created, configured, resolved))
            => /\ Len(subs') = Len(subs) + 1
               /\ subs'[Len(subs')].xray_uuid = created.uuid
               /\ subs'[Len(subs')].config_url = stored_url(created, configured, resolved)]_vars

\* C24 witness: a row provisioned earlier is some minutes old, still active
\* and with its link, and a second row has been inserted after it.
C24_Witness ==
  /\ Len(subs) = 2
  /\ subs[1].age > 0
  /\ subs[1].is_active
  /\ subs[1].config_url = "link"
  /\ subs[2].age = 0

\* C25: _resolve_subscription_link fetches the endpoint at most 5 times,
\* tries on each 200 response the extractors in the order plain text,
\* base64, data-URI QR, PNG body QR and returns the first connection URI
\* found; it returns null when the attempts are exhausted or the url is
\* absent, and it never raises.
C25_Resolve ==
  [][helper.fn = "resolve"
       => /\ helper'.fetches <= 5
          /\ helper'.pc \in {"get", "returned"}
          /\ helper.url = "none" => helper'.pc = "returned" /\ helper'.fetches = 0
                                     /\ helper'.out = "none"
          /\ \A resp \in SubResponses :
               (resolve_get(resp) /\ resp.status = 200)
                 => /\ resp.plain # "none" => helper'.out = resp.plain
                    /\ (resp.plain = "none" /\ resp.b64 # "none") => helper'.out = resp.b64
                    /\ (resp.plain = "none" /\ resp.b64 = "none" /\ resp.datauri # "none")
                         => helper'.out = resp.datauri
                    /\ (resp.plain = "none" /\ resp.b64 = "none" /\ resp.datauri = "none")
                         => helper'.out = resp.png
                    /\ helper'.out # "none" => helper'.pc = "returned"
          /\ \A resp \in SubResponses :
               (resolve_get(resp) /\ resp.status # 200) => helper'.out = "none"
          /\ (helper'.pc = "returned" /\ helper'.out = "none" /\ helper.pc = "get")
               => helper'.fetches = 5 \/ helper'.resp = Raises
          /\ helper.pc = "get" => helper'.fetches = helper.fetches + 1]_vars

\* C25 witness: four fetches found nothing and the fifth returned the link
\* of the PNG body.
C25_Witness ==
  /\ helper.fn = "resolve"
  /\ helper.pc = "returned"
  /\ helper.fetches = 5
  /\ helper.out = "vless://png"

\* C26: the composite external reference round-trips: once the payment
\* session with remote id p exists for plan code c the stored reference is
\* c, "|", p and every read site recovers c before the first "|" and p after
\* it; a reference that is the bare code c yields c and no payment id.
C26_RoundTrip ==
  helper.fn = "external_id" =>
    /\ (helper.pc = "stored" /\ helper.payment_id # <<>>)
         => helper.ext = helper.code \o <<"|">> \o helper.payment_id
    /\ (helper.read = "stored" /\ helper.payment_id # <<>>)
         => /\ helper.plan = helper.code
            /\ helper.plan_success = helper.code
            /\ helper.paid_with = helper.payment_id
            /\ helper.plan = SubSeq(helper.ext, 1, Len(helper.code))
            /\ helper.ext[Len(helper.code) + 1] = "|"
            /\ \A i \in 1..Len(helper.code) : helper.ext[i] # "|"
    /\ (helper.read = "bare" \/ (helper.read = "stored" /\ helper.payment_id = <<>>))
         => /\ helper.plan = helper.code
            /\ helper.plan_success = helper.code
            /\ helper.paid_with = NoPaymentId

\* C26 witness: a reference whose payment id itself holds a "|" was read.
C26_Witness ==
  /\ helper.fn = "external_id"
  /\ helper.read = "stored"
  /\ helper.payment_id = <<"p", "|", "p">>
  /\ helper.paid_with = <<"p", "|", "p">>

\* C27: build_vless_url picks the host by strict priority: the configured
\* public hostname, then the websocket Host header, then the TLS/REALITY
\* server name, then the panel's own hostname; it returns null when there
\* is no host, no port, or the inbound's protocol is not vless.
C27_HostPriority ==
  (helper.fn = "build_vless_url" /\ helper.pc = "returned") =>
    LET i == helper.inbound
        parsed == i.stream = "dict"
        header == IF parsed /\ i.network = "ws" THEN i.ws_host ELSE "none"
        settings == IF i.tlsSettings # "absent" THEN i.tlsSettings ELSE i.realitySettings
        name == IF parsed /\ i.security \in {"tls", "reality"}
                   /\ settings \in {"tls.name", "reality.name"}
                THEN settings ELSE "none"
        hosts == <<helper.cfg.public_host, header, name, helper.cfg.base_host>>
    IN
    /\ i.protocol = "vmess" => helper.out = NoVless
    /\ i.port = 0 => helper.out = NoVless
    /\ (\A k \in 1..4 : hosts[k] = "none") => helper.out = NoVless
    /\ helper.out # NoVless
         => /\ helper.out.port = i.port
            /\ \E k \in 1..4 :
                 /\ hosts[k] # "none"
                 /\ helper.out.server = hosts[k]
                 /\ \A j \in 1..(k - 1) : hosts[j] = "none"

\* C27 witness: with no public hostname and no websocket header the server
\* name of the TLS settings was picked ahead of the panel's hostname.
C27_Witness ==
  /\ helper.fn = "build_vless_url"
  /\ helper.pc = "returned"
  /\ helper.cfg.base_host = "panel.host"
  /\ helper.out.server = "tls.name"

\* C28: login sends no request when the credentials are not configured; it
\* stops at the first candidate path and body encoding that answers with a
\* 2xx or 3xx status; it never raises; and when every login attempt failed
\* add_client and get_inbound still send their own requests.
C28_Login ==
  [][helper.fn = "login"
       => /\ ~helper.configured => helper'.requests = 0
          /\ \A status \in {200, 204, 302} :
               login_post(status) => helper'.pc = "returned" /\ helper'.logged_in
          /\ helper.pc \in {"returned", "requested"} => helper'.requests = helper.requests
          /\ helper'.pc \in {"start", "post", "returned", "requested"}
          /\ (helper'.pc = "returned" /\ helper'.caller # "login")
               => (ENABLED after_login)'
          /\ helper'.pc = "requested" => helper'.own_request = helper.caller]_vars

\* C28 witness: every login attempt on every candidate failed and
\* get_inbound has sent its request all the same.
C28_Witness ==
  /\ helper.fn = "login"
  /\ helper.pc = "requested"
  /\ helper.own_request = "get_inbound"
  /\ helper.configured
  /\ ~helper.logged_in
  /\ helper.requests = 2 * Len(candidates(helper.base_path, LoginSubpaths))

\* C29: get_inbound returns, from the first candidate endpoint that yields
\* one, a record of the obj or data envelope: the single object when its id
\* is the requested one or it has a port, or the list element whose id is
\* the requested one; it returns null when no endpoint yields a match, and
\* a failing endpoint does not make it raise.
C29_Matches(shape) == shape \in {"dict_match", "dict_port", "list_match"}

C29_GetInbound ==
  [][helper.fn = "get_inbound"
       => /\ helper'.pc \in {"start", "get", "returned"}
          /\ \A resp \in InboundResponses :
               get_inbound_get(resp)
                 => /\ (resp.kind = "dict" /\ C29_Matches(resp.obj))
                         => /\ helper'.pc = "returned"
                            /\ helper'.out.via = "obj"
                            /\ helper'.out.ep =
                                 candidates(helper.base_path, InboundSubpaths)[helper.ep]
                            /\ resp.obj = "dict_match" => helper'.out.record = "object_with_id"
                            /\ resp.obj = "dict_port" => helper'.out.record = "object_with_port"
                            /\ resp.obj = "list_match" => helper'.out.record = "element_with_id"
                    /\ (resp.kind = "dict" /\ resp.obj = "absent" /\ C29_Matches(resp.data))
                         => /\ helper'.pc = "returned"
                            /\ helper'.out.via = "data"
                            /\ resp.data = "dict_match" => helper'.out.record = "object_with_id"
                            /\ resp.data = "dict_port" => helper'.out.record = "object_with_port"
                            /\ resp.data = "list_match" => helper'.out.record = "element_with_id"
                    /\ (resp.kind # "dict" \/ (~C29_Matches(resp.obj) /\ ~C29_Matches(resp.data)))
                         => /\ helper'.out = NoInbound
                            /\ helper'.pc = "returned"
                                 <=> helper.ep = Len(candidates(helper.base_path, InboundSubpaths))
                    /\ helper.out = NoInbound
          /\ helper.pc = "returned" => helper' = helper]_vars

\* C29 witness: the earlier endpoints failed or held no match, and the
\* list of a later one gave the element with the requested id.
C29_Witness ==
  /\ helper.fn = "get_inbound"
  /\ helper.pc = "returned"
  /\ helper.requests >= 2
  /\ helper.out.record = "element_with_id"
  /\ helper.out.ep = <<"panel", "api", "inbounds", "list">>

\* C30: over the whole lifetime of a PAID order at most one Subscription
\* row is ever created for it, however many times and however far apart
\* its owner issues /check, repeats more than 10 minutes after the first
\* provisioning included.
C30_OneRowPerPaidOrder ==
  \A o \in 1..Len(orders) :
    orders[o].status = PAID
      => Cardinality({i \in 1..Len(subs) : subs[i].order = o}) <= 1

\* C30 witness: a PAID order has a row older than the guard window and a
\* second, fresh row from a later /check.
C30_Witness ==
  \E o \in 1..Len(orders), i, j \in 1..Len(subs) :
    /\ orders[o].status = PAID
    /\ i # j
    /\ subs[i].order = o
    /\ subs[j].order = o
    /\ subs[i].age > GuardMinutes
    /\ subs[j].age = 0

\* C31: a Subscription is only ever created for the user who owns the order
\* whose payment was confirmed: a deep-link /start paid_<id> sent by a user
\* who does not own order <id> never results in a Subscription for the
\* sender and never changes that order's status.
C31_OwnerOnly ==
  [][\A u \in TgUsers, o \in 1..Len(orders) :
       users[orders[o].user_id] # u
         => /\ cmd_start(u, o) => orders'[o].status = orders[o].status
            /\ (chat[u].pc = "start_add" /\ chat[u].order = o) => subs' = subs]_vars

\* C31 witness: a Subscription row belongs to a user other than the owner of
\* the order it was provisioned from.
C31_Witness ==
  \E i \in 1..Len(subs) :
    /\ subs[i].user_id # orders[subs[i].order].user_id
    /\ orders[subs[i].order].status = PAID

\* C32: every order that reaches PAID eventually has a Subscription created
\* for its owner, whichever trigger wrote PAID (the webhook included), when
\* the order's remaining background attempts and every /check the owner
\* issues run to completion and the panel answers.
C32_PaidProvisioned ==
  \A o \in OrderIds :
    (o <= Len(orders) /\ orders[o].status = PAID)
      ~> (\E i \in 1..Len(subs) :
            subs[i].order = o /\ subs[i].user_id = orders[o].user_id)

\* C32 witness: the webhook wrote PAID, the task has used up its attempts,
\* no handler is running and the order has no Subscription.
C32_Witness ==
  /\ Len(orders) = 1
  /\ orders[1].status = PAID
  /\ task[1].pc = "done"
  /\ task[1].attempt = MaxAttempts
  /\ Quiescent
  /\ subs = <<>>

\* C33: for each order _try_refresh_order_status returns PAID to at most one
\* caller over all time and under any interleaving of concurrent calls
\* (deep-link and background task): only the call that performs the
\* PENDING -> PAID write gets PAID, every other call gets None.
C33_OnePaidReturn ==
  helper.fn = "refresh"
    => /\ helper.paid_returns <= 1
       /\ Cardinality(helper.paid_to) <= 1

\* C33 witness: the deep-link's call and the task's call have both returned
\* PAID for the same order.
C33_Witness ==
  /\ helper.fn = "refresh"
  /\ helper.call["deep_link"].pc = "returned"
  /\ helper.call["deep_link"].ret = PAID
  /\ helper.call["task"].pc = "returned"
  /\ helper.call["task"].ret = PAID

\* C34: a Subscription row is persisted only when the panel accepted the
\* client: if add_client exhausted every endpoint and payload shape without
\* a success response, no Subscription row with that UUID is stored and the
\* user is not told a subscription was created.
C34_OnlyAcceptedClients ==
  [][(panel.pc = "done" /\ panel.resp \notin {"ok", "ok_link"}
        /\ panel.last.ep = Len(Endpoints) /\ panel.last.pf = Len(Payloads))
       => /\ \A i \in 1..Len(subs') : subs'[i].xray_uuid # panel.result.uuid
          /\ sent'.msg # "created"]_vars

\* C34 witness: every create request of the run failed, and a Subscription
\* with the run's uuid is stored and announced.
C34_Witness ==
  /\ panel.all_failed
  /\ panel.requests >= Len(Endpoints) * Len(Payloads)
  /\ \E i \in 1..Len(subs) : subs[i].xray_uuid = panel.result.uuid
  /\ sent.msg = "created"

\* The caller's order with the highest id, 0 when the caller has none.
C35_Highest(u) ==
  LET mine == {o \in 1..Len(orders) :
                 orders[o].user_id <= Len(users) /\ users[orders[o].user_id] = u}
  IN IF mine = {} THEN 0 ELSE CHOOSE o \in mine : \A p \in mine : p <= o

\* C35: /check examines exactly one order, the caller's order with the
\* highest id, and every status change or provisioning it performs uses that
\* order's status and plan; it changes no other order, and with no orders it
\* changes nothing and reports that none were found.  The deep-link
\* fallback into /check acts on the caller's latest order, not on the order
\* named in the link.
C35_LatestOrderOnly ==
  [][\A u \in TgUsers :
       /\ cmd_check(u)
            => IF C35_Highest(u) = 0
               THEN /\ orders' = orders
                    /\ subs' = subs
                    /\ sent' = [to |-> u, msg |-> "no_orders"]
               ELSE /\ \A o \in 1..Len(orders) :
                         o # C35_Highest(u) => orders'[o] = orders[o]
                    /\ subs' = subs
                    /\ chat'[u].pc = "check_guard"
                         => /\ chat'[u].order = C35_Highest(u)
                            /\ orders'[C35_Highest(u)].status = PAID
                            /\ chat'[u].days =
                                 PlanDaysOf(orders[C35_Highest(u)].external_id)
                    /\ chat'[u].pc # "check_guard"
                         => orders'[C35_Highest(u)].status # PAID
       /\ cmd_check_persist(u, TRUE)
            => /\ Len(subs') = Len(subs) + 1
               /\ subs'[Len(subs')].order = chat[u].order
               /\ subs'[Len(subs')].term = chat[u].days * DayMinutes
               /\ orders' = orders]_vars

\* C35 witness: the caller has two orders, the deep-link's refresh did not
\* confirm, and the fallback into /check has gone on with order 2.
C35_Witness ==
  /\ Len(orders) = 2
  /\ orders[1].user_id = orders[2].user_id
  /\ orders[1].status = PENDING
  /\ chat[1].pc = "check_guard"
  /\ chat[1].within = "try"
  /\ chat[1].order = 2

\* C36: the background task stops at the first attempt whose refresh returns
\* PAID or CANCELED: on PAID it runs the guard, provisions at most one
\* Subscription and sends one notification; on CANCELED it sends a
\* cancellation notice and creates no Subscription; in both cases it makes
\* no later poll.
C36_StopsAtFirstResult ==
  [][\A o \in 1..Len(orders) :
       /\ task[o].pc \in {"guard", "add"} => task'[o].pc \in {"guard", "add", "done"}
       /\ (task[o].pc = "add" /\ task'[o].pc = "done")
            => /\ Len(subs') = Len(subs) + 1
               /\ sent' = [to |-> TaskUser(o), msg |-> "created"]
       /\ (task[o].pc = "guard" /\ task'[o].pc = "done") => subs' = subs
       /\ (task[o].pc = "sleep" /\ orders[o].status # CANCELED
             /\ orders'[o].status = CANCELED /\ task'[o] # task[o])
            => /\ task'[o].pc = "done"
               /\ subs' = subs
               /\ sent' = [to |-> TaskUser(o), msg |-> "canceled"]
       /\ task[o].pc = "done" => task'[o] = task[o]]_vars

C36_Witness ==
  \E o \in 1..Len(orders) :
    /\ task[o].pc = "add"
    /\ task[o].attempt < MaxAttempts
    /\ orders[o].status = PAID

\* C37: sanitize_config_link is idempotent: for every link u,
\* sanitize_config_link(sanitize_config_link(u)) equals
\* sanitize_config_link(u), and a null or non-string input is returned as is.
C37_Idempotent ==
  (helper.fn = "sanitize" /\ helper.done)
    => /\ sanitize_config_link(helper.out) = helper.out
       /\ helper.arg = NoUrl => helper.out = NoUrl

\* C37 witness: a fragment that starts with a line feed went through
\* sanitize_config_link and came back with a hyphen-digit pair, which a
\* second pass cuts.
C37_Witness ==
  /\ helper.fn = "sanitize"
  /\ helper.done
  /\ helper.arg.fragment = <<"%0A", "-", "1">>
  /\ helper.out.fragment = <<"-", "1">>
  /\ sanitize_config_link(helper.out).fragment = <<>>

====
